---- MODULE Spec2Model ----
(***************************************************************************)
(* A model of c2gofmt (rsc/cmd): the driver do() with its parse loop, the  *)
(* C-tree passes (side-effect extraction, switch reshaping, declaration    *)
(* motion, renaming) and the Go pattern-rewrite engine.                     *)
(*                                                                         *)
(* Every component has its own variables and its own specification; a      *)
(* specification keeps the variables of the other components at their      *)
(* "off" value.                                                            *)
(***************************************************************************)
EXTENDS Integers, Sequences, FiniteSets, TLC

VARIABLES
    rwPc,       \* rewriteVal: position inside one visit ("start","rules","done")
    rwRules,    \* the rule list (var rules, rewrite.go:26)
    rwIn,       \* the node handed to rewriteVal
    rwVal,      \* rewriteVal's local val
    rwI,        \* index of the next rule of the range loop
    rwApplied,  \* indices of the rules whose subst replaced val, in order
    rnPc,       \* renameDecls: position ("escape","collect","count","rename","done")
    rnIn,       \* the declarations as the parser left them (never changed)
    rnDecl,     \* the *cc.Decl objects, by identity
    rnType,     \* the *cc.Type objects, by identity
    rnOut,      \* renameDecls' local decls (the list it returns)
    rnCount,    \* renameDecls' local count
    rsPc,       \* rewriteSwitch: position ("inline","loop","done")
    rsIn,       \* swt.Body as rewriteSwitch received it (never changed)
    rsBody,     \* swt.Body
    rsOut,      \* rewriteSwitch's local out
    rsHaveCase, \* rewriteSwitch's local haveCase
    rsI,        \* index of the next statement of the range loop
    doPc,       \* do/writeGo: the statement about to run
    doTypes,    \* do's local types
    doHave,     \* do's local haveType (the set of its keys)
    doProg,     \* do's local prog: 0 for nil, else the program's index in DoPrograms
    doNRules,   \* len(rules)
    doDecls,    \* do's local decls, as renameDecls returned it
    doMoveArg,  \* the list moveDecls was called with
    doBuf,      \* writeGo's local buf
    doTrace,    \* the stages that have run, in order
    mdPc,       \* moveDecls: position ("range","move","done")
    mdI,        \* index of the next declaration of the range loop
    mdIn,       \* the function body as moveDecls received it (never changed)
    mdBody,     \* fndecl.Body
    sePc,       \* rewriteSyntax: the pass about to run
    seIn,       \* the function body as rewriteSyntax received it (never changed)
    seTree,     \* the function body
    seG,        \* tmpGen's next number, the temporaries' types, the initializers
    prPc,       \* main: the statement about to run
    prFlags,    \* the flags: whether -r names a rule file, -w, and the number of arguments
    prData,     \* the rule file, split at newlines
    prI,        \* parseRules: index of the line of the range loop
    prRules,    \* var rules (rewrite.go:26), as source text
    prArg,      \* main: index of the next argument
    prRead,     \* the number of inputs read so far (stdin or a named file)
    prOut,      \* the number of outputs written so far (stdout or a .go file)
    prLog,      \* what log.Fatal printed, if it ran
    tgI,        \* the producer goroutine's i (part_005:524)
    tgProd,     \* the producer goroutine: about to send, or about to increment
    tgMain,     \* the translating goroutine: running, or waiting in a receive from tmpGen
    tgTmps,     \* the temporaries declared so far: the number received, the name, the receive it came from
    sxPc,       \* extractSideEffects on one expression: before the call, or after
    sxIn,       \* the expression as the call received it (never changed)
    sxMode,     \* the call's mode
    sxGen,      \* the next number of tmpGen at the call
    sxOut,      \* the expression as the call left it, and the before and after lists
    blCfg,      \* benchlab: commit/host pairs, reps, maxJobs and the cached jobs
    blPc,       \* runMachine: position in the function
    blNext,     \* runMachine: index of the next job of m.jobs
    blActive,   \* runMachine: active
    blChan,     \* runMachine: number of jobs buffered in the channel done
    blDrain,    \* runMachine: receives left in the final loop
    blJob,      \* position of each job's goroutine
    blSuccess,  \* jobs with j.success set
    blClosed,   \* jobs whose channel j.done is closed
    blRan,      \* jobs whose command was started by runRemote
    sbPc,       \* simplifyBool: position
    sbIn,       \* simplifyBool: the expression handed in
    sbOut      \* simplifyBool: the expression it leaves

rwVars == <<rwPc, rwRules, rwIn, rwVal, rwI, rwApplied>>
rnVars == <<rnPc, rnIn, rnDecl, rnType, rnOut, rnCount>>
rsVars == <<rsPc, rsIn, rsBody, rsOut, rsHaveCase, rsI>>
doVars == <<doPc, doTypes, doHave, doProg, doNRules, doDecls, doMoveArg, doBuf, doTrace>>
mdVars == <<mdPc, mdI, mdIn, mdBody>>
seVars == <<sePc, seIn, seTree, seG>>
prVars == <<prPc, prFlags, prData, prI, prRules, prArg, prRead, prOut, prLog>>
tgVars == <<tgI, tgProd, tgMain, tgTmps>>
sxVars == <<sxPc, sxIn, sxMode, sxGen, sxOut>>
blVars == <<blCfg, blPc, blNext, blActive, blChan, blDrain, blJob, blSuccess, blClosed, blRan>>
sbVars == <<sbPc, sbIn, sbOut>>
vars == <<rwVars, rnVars, rsVars, doVars, mdVars, seVars, prVars, tgVars, sxVars, blVars, sbVars>>

\* The variables of the other components, which a step of one leaves alone.
rwOthers == <<rnVars, rsVars, doVars, mdVars, seVars, prVars, tgVars, sxVars, blVars, sbVars>>
rnOthers == <<rwVars, rsVars, doVars, mdVars, seVars, prVars, tgVars, sxVars, blVars, sbVars>>
rsOthers == <<rwVars, rnVars, doVars, mdVars, seVars, prVars, tgVars, sxVars, blVars, sbVars>>
doOthers == <<rwVars, rnVars, rsVars, mdVars, seVars, prVars, tgVars, sxVars, blVars, sbVars>>
mdOthers == <<rwVars, rnVars, rsVars, doVars, seVars, prVars, tgVars, sxVars, blVars, sbVars>>
seOthers == <<rwVars, rnVars, rsVars, doVars, mdVars, prVars, tgVars, sxVars, blVars, sbVars>>
prOthers == <<rwVars, rnVars, rsVars, doVars, mdVars, seVars, tgVars, sxVars, blVars, sbVars>>
tgOthers == <<rwVars, rnVars, rsVars, doVars, mdVars, seVars, prVars, sxVars, blVars, sbVars>>
sxOthers == <<rwVars, rnVars, rsVars, doVars, mdVars, seVars, prVars, tgVars, blVars, sbVars>>
blOthers == <<rwVars, rnVars, rsVars, doVars, mdVars, seVars, prVars, tgVars, sxVars, sbVars>>
sbOthers == <<rwVars, rnVars, rsVars, doVars, mdVars, seVars, prVars, tgVars, sxVars, blVars>>

\* A component that a specification does not run.
RwOff == /\ rwPc = "off" /\ rwRules = <<>> /\ rwIn = "off" /\ rwVal = "off"
         /\ rwI = 0 /\ rwApplied = <<>>
RnOff == /\ rnPc = "off" /\ rnIn = "off" /\ rnDecl = "off" /\ rnType = "off"
         /\ rnOut = <<>> /\ rnCount = "off"
RsOff == /\ rsPc = "off" /\ rsIn = <<>> /\ rsBody = <<>> /\ rsOut = <<>>
         /\ rsHaveCase = FALSE /\ rsI = 0
NilBuf == [text |-> "", formatted |-> FALSE]
DoOff == /\ doPc = "off" /\ doTypes = <<>> /\ doHave = {} /\ doProg = 0
         /\ doNRules = 0 /\ doDecls = <<>> /\ doMoveArg = <<>>
         /\ doBuf = NilBuf /\ doTrace = <<>>
MdOff == mdPc = "off" /\ mdI = 0 /\ mdIn = [op |-> "nil"] /\ mdBody = [op |-> "nil"]
SeOff == sePc = "off" /\ seIn = [op |-> "nil"] /\ seTree = [op |-> "nil"] /\ seG = 0
PrOff == prPc = "off" /\ prFlags = 0 /\ prData = <<>> /\ prI = 0 /\ prRules = <<>>
         /\ prArg = 0 /\ prRead = 0 /\ prOut = 0 /\ prLog = ""
TgOff == tgI = 0 /\ tgProd = "off" /\ tgMain = "off" /\ tgTmps = <<>>
SxOff == sxPc = "off" /\ sxIn = [op |-> "nil"] /\ sxMode = {} /\ sxGen = 0 /\ sxOut = 0
BlOff == blCfg = [pairs |-> 0, reps |-> 0, testCPU |-> 0, maxJobs |-> 0, cached |-> {}]
         /\ blPc = "off" /\ blNext = 0 /\ blActive = 0 /\ blChan = 0 /\ blDrain = 0 /\ blJob = <<>> /\ blSuccess = {} /\ blClosed = {} /\ blRan = {}
SbOff == sbPc = "off" /\ sbIn = [op |-> "nil"] /\ sbOut = [op |-> "nil"]

(***************************************************************************)
(* Go AST values (go/ast), as far as patterns use them.  A name is the     *)
(* sequence of its runes; a position is a natural number, 0 is token.NoPos.*)
(***************************************************************************)
NoPos == 0

Ident(n, p) == [k |-> "Ident", name |-> n, pos |-> p]
Call(f, lp, a, el) == [k |-> "Call", fun |-> f, lparen |-> lp, args |-> a, ellipsis |-> el]
Sel(x, s) == [k |-> "Sel", x |-> x, sel |-> s]
Bin(x, p, o, y) == [k |-> "Bin", x |-> x, oppos |-> p, op |-> o, y |-> y]
\* *ast.ParenExpr, *ast.UnaryExpr and *ast.StarExpr: one operand each.
ParenExpr(p, x) == [k |-> "Paren", pos |-> p, op |-> "", x |-> x]
UnaryExpr(p, o, x) == [k |-> "Unary", pos |-> p, op |-> o, x |-> x]
StarExpr(p, x) == [k |-> "Star", pos |-> p, op |-> "", x |-> x]
OneOperand == {"Paren", "Unary", "Star"}

\* Runes that unicode.IsLower accepts, and the runes of two UTF-8 bytes.
LowerRunes == {"a", "b", "f", "g", "h", "i", "k", "m", "n", "o", "p", "q", "r",
               "s", "t", "x", "y", "e", "é"}
TwoByteRunes == {"é", "É"}

RuneLen(r) == IF r \in TwoByteRunes THEN 2 ELSE 1

RECURSIVE ByteLen(_)
ByteLen(s) == IF s = <<>> THEN 0 ELSE RuneLen(Head(s)) + ByteLen(Tail(s))

\* utf8.DecodeRuneInString: the first rune and its width; (RuneError, 0) for "".
DecodeRuneInString(s) ==
    IF s = <<>> THEN [rune |-> "RuneError", size |-> 0]
    ELSE [rune |-> Head(s), size |-> RuneLen(Head(s))]

isWildcard_firstOnly(s) ==
    LET d == DecodeRuneInString(s) IN d.rune \in LowerRunes

isWildcard(s) ==
    LET d == DecodeRuneInString(s)
    IN  d.size = ByteLen(s) /\ d.rune \in LowerRunes

\* ast.Node.Pos() of an expression.
RECURSIVE NodePos(_)
NodePos(e) ==
    CASE e.k = "Ident" -> e.pos
      [] e.k = "Call"  -> NodePos(e.fun)
      [] e.k = "Sel"   -> NodePos(e.x)
      [] e.k = "Bin"   -> NodePos(e.x)
      [] e.k \in OneOperand -> e.pos

NoMap == <<>>

(***************************************************************************)
(* match(m, pattern, val): useM is m != nil.  The result carries the map,  *)
(* which match fills in as it goes.                                        *)
(***************************************************************************)
RECURSIVE match(_, _, _, _), matchSlice(_, _, _, _, _)

matchWildcard_rebind(useM, m, pattern, val) ==
    [ok |-> TRUE, m |-> (pattern.name :> val) @@ m]

matchWildcard(useM, m, pattern, val) ==
    IF pattern.name \in DOMAIN m
    THEN [ok |-> match(FALSE, NoMap, m[pattern.name], val).ok, m |-> m]
    ELSE [ok |-> TRUE, m |-> (pattern.name :> val) @@ m]

\* The Sel field as it would be matched if the map were passed on to it.
matchSel_wild(useM, m, pattern, val) == match(useM, m, pattern, val)

\* The Sel field of a selector: m = nil (rewrite.go:262-264).
matchSel(useM, m, pattern, val) ==
    [ok |-> match(FALSE, NoMap, pattern, val).ok, m |-> m]

match(useM, m, pattern, val) ==
    IF useM /\ pattern.k = "Ident" /\ isWildcard(pattern.name)
    THEN matchWildcard(useM, m, pattern, val)
    ELSE IF pattern.k # val.k THEN [ok |-> FALSE, m |-> m]
    ELSE CASE pattern.k = "Ident" ->
                [ok |-> pattern.name = val.name, m |-> m]
           [] pattern.k = "Call" ->
                IF (pattern.ellipsis # NoPos) # (val.ellipsis # NoPos)
                THEN [ok |-> FALSE, m |-> m]
                ELSE LET r1 == match(useM, m, pattern.fun, val.fun)
                     IN  IF ~r1.ok THEN r1
                         ELSE matchSlice(useM, r1.m, pattern.args, val.args, 1)
           [] pattern.k = "Sel" ->
                LET r1 == match(useM, m, pattern.x, val.x)
                IN  IF ~r1.ok THEN r1
                    ELSE matchSel(useM, r1.m, pattern.sel, val.sel)
           [] pattern.k = "Bin" ->
                LET r1 == match(useM, m, pattern.x, val.x)
                IN  IF ~r1.ok THEN r1
                    ELSE IF pattern.op # val.op THEN [ok |-> FALSE, m |-> r1.m]
                    ELSE match(useM, r1.m, pattern.y, val.y)
           [] pattern.k \in OneOperand ->
                IF pattern.op # val.op THEN [ok |-> FALSE, m |-> m]
                ELSE match(useM, m, pattern.x, val.x)

matchSlice(useM, m, p, v, i) ==
    IF i = 1 /\ Len(p) # Len(v) THEN [ok |-> FALSE, m |-> m]
    ELSE IF i > Len(p) THEN [ok |-> TRUE, m |-> m]
    ELSE LET r1 == match(useM, m, p[i], v[i])
         IN  IF ~r1.ok THEN r1 ELSE matchSlice(useM, r1.m, p, v, i + 1)

\* match as rewriteVal calls it on a value of interface kind (the ast.Expr
\* field itself): only a pattern that is a wildcard can match, every other
\* pattern has a different reflect.Type.
matchIface(m, pattern, val) ==
    IF pattern.k = "Ident" /\ isWildcard(pattern.name)
    THEN matchWildcard(TRUE, m, pattern, val)
    ELSE [ok |-> FALSE, m |-> m]

(***************************************************************************)
(* subst(m, pattern, pos): usePos is pos.IsValid().                        *)
(***************************************************************************)
\* subst's position case as it would be if an unset position took pos and
\* a set one were kept.
substPos_fillUnset(usePos, old, pos) ==
    IF usePos THEN (IF old = NoPos THEN pos ELSE old) ELSE old

substPos(usePos, old, pos) ==
    IF usePos THEN (IF old = NoPos THEN old ELSE pos) ELSE old

RECURSIVE subst(_, _, _, _, _)
subst(useM, m, pattern, usePos, pos) ==
    IF useM /\ pattern.k = "Ident" /\ isWildcard(pattern.name)
            /\ pattern.name \in DOMAIN m
    THEN subst(FALSE, NoMap, m[pattern.name], FALSE, NoPos)
    ELSE CASE pattern.k = "Ident" ->
                Ident(pattern.name, substPos(usePos, pattern.pos, pos))
           [] pattern.k = "Call" ->
                Call(subst(useM, m, pattern.fun, usePos, pos),
                     substPos(usePos, pattern.lparen, pos),
                     [i \in DOMAIN pattern.args |->
                         subst(useM, m, pattern.args[i], usePos, pos)],
                     substPos(usePos, pattern.ellipsis, pos))
           [] pattern.k = "Sel" ->
                Sel(subst(useM, m, pattern.x, usePos, pos),
                    subst(FALSE, NoMap, pattern.sel, usePos, pos))
           [] pattern.k = "Bin" ->
                Bin(subst(useM, m, pattern.x, usePos, pos),
                    substPos(usePos, pattern.oppos, pos),
                    pattern.op,
                    subst(useM, m, pattern.y, usePos, pos))
           [] pattern.k \in OneOperand ->
                [pattern EXCEPT !.pos = substPos(usePos, @, pos),
                                !.x = subst(useM, m, @, usePos, pos)]

(***************************************************************************)
(* rewriteFile's first rewriteVal (rewrite.go:55-75).                      *)
(***************************************************************************)
\* One turn of the range loop over the rules, on a pointer-kind value.
tryRule(r, val) ==
    LET res == match(TRUE, NoMap, r.old, val)
    IN  IF res.ok THEN subst(TRUE, res.m, r.new, TRUE, NodePos(val)) ELSE val

\* The turn as it would be if the interface value had the type of the node
\* it holds, so that every pattern could match it.
tryRuleIface_node(r, val) ==
    LET res == match(TRUE, NoMap, r.old, val)
    IN  IF res.ok THEN subst(TRUE, res.m, r.new, TRUE, NodePos(val)) ELSE val

tryRuleIface(r, val) ==
    LET res == matchIface(NoMap, r.old, val)
    IN  IF res.ok THEN subst(TRUE, res.m, r.new, TRUE, NodePos(val)) ELSE val

\* The range loop: val is assigned the result of a turn before the next turn
\* begins (v is that value).
RECURSIVE rulesLoop(_, _, _), rulesLoopIface(_, _, _)
rulesLoop(rs, val, i) ==
    IF i > Len(rs) THEN val
    ELSE CHOOSE out \in { rulesLoop(rs, v, i + 1) : v \in {tryRule(rs[i], val)} } : TRUE
rulesLoopIface(rs, val, i) ==
    IF i > Len(rs) THEN val
    ELSE CHOOSE out \in { rulesLoopIface(rs, v, i + 1) :
                             v \in {tryRuleIface(rs[i], val)} } : TRUE

RECURSIVE rewriteVal(_, _), apply(_, _)
\* rewriteVal on an ast.Expr field: the visit of the interface value, whose
\* apply visits the node it holds.
rewriteExprField(rs, e) ==
    CHOOSE out \in { rulesLoopIface(rs, v, 1) : v \in {rewriteVal(rs, e)} } : TRUE

\* apply(rewriteVal, val): every field but Sel.
apply(rs, val) ==
    CASE val.k = "Ident" -> val
      [] val.k = "Call"  ->
            [val EXCEPT !.fun = rewriteExprField(rs, val.fun),
                        !.args = [i \in DOMAIN val.args |->
                                     rewriteExprField(rs, val.args[i])]]
      [] val.k = "Sel"   -> [val EXCEPT !.x = rewriteExprField(rs, val.x)]
      [] val.k = "Bin"   -> [val EXCEPT !.x = rewriteExprField(rs, val.x),
                                        !.y = rewriteExprField(rs, val.y)]
      [] val.k \in OneOperand ->
            [val EXCEPT !.x = rewriteExprField(rs, val.x)]

rewriteVal(rs, val) ==
    CHOOSE out \in { rulesLoop(rs, v, 1) : v \in {apply(rs, val)} } : TRUE

(***************************************************************************)
(* rewriteFile's second rewriteVal (rewrite.go:77-96): a selector of &x   *)
(* or of a dereferenced x becomes x.f.                                     *)
(***************************************************************************)
\* The pass as it would be if it left every selector alone.
selectorX_keep(x) == x

\* rewrite.go:84-94: the new sel.X for the sel.X the children pass left.
selectorX(x) ==
    LET y == IF x.k = "Paren" THEN x.x ELSE x
    IN  IF y.k = "Unary" /\ y.op = "&" THEN y.x
        ELSE IF y.k = "Star" THEN y.x
        ELSE x

RECURSIVE selectorPass(_)
selectorPass(val) ==
    CASE val.k = "Ident" -> val
      [] val.k = "Call"  ->
            [val EXCEPT !.fun = selectorPass(val.fun),
                        !.args = [i \in DOMAIN val.args |-> selectorPass(val.args[i])]]
      [] val.k = "Sel"   -> [val EXCEPT !.x = selectorX(selectorPass(val.x))]
      [] val.k = "Bin"   -> [val EXCEPT !.x = selectorPass(val.x),
                                        !.y = selectorPass(val.y)]
      [] val.k \in OneOperand -> [val EXCEPT !.x = selectorPass(val.x)]

(***************************************************************************)
(* Inputs of the rewrite engine.                                           *)
(***************************************************************************)
N(s) == Ident(s, 1)                \* an identifier of a parsed rule
V(s, p) == Ident(s, p)             \* an identifier of the file

nm_x == <<"x">>
nm_y == <<"y">>
nm_q == <<"q">>
nm_r == <<"r">>
nm_fn == <<"f", "n">>
nm_iter == <<"i", "t", "e", "r">>
nm_same == <<"s", "a", "m", "e">>
nm_ok == <<"o", "k">>
nm_G == <<"G">>
nm_H == <<"H">>
nm_e2 == <<"é">>
nm_f == <<"f">>

Rule(o, n) == [old |-> o, new |-> n]

\* x.x -> G(x).x
RuleSelSel ==
    Rule(Sel(N(nm_x), N(nm_x)),
         Sel(Call(N(nm_G), 1, <<N(nm_x)>>, NoPos), N(nm_x)))
\* same(r.x, x) -> ok(x)
RuleSameSel ==
    Rule(Call(N(nm_same), 1, <<Sel(N(nm_r), N(nm_x)), N(nm_x)>>, NoPos),
         Call(N(nm_ok), 1, <<N(nm_x)>>, NoPos))

\* x -> f(x): the pattern matches every expression, the replacement too.
RuleWrap == Rule(N(nm_x), Call(N(nm_f), 1, <<N(nm_x)>>, NoPos))
\* G(y) -> G(G(y)): the pattern matches the replacement.
RuleGrow ==
    Rule(Call(N(nm_G), 1, <<N(nm_y)>>, NoPos),
         Call(N(nm_G), 1, <<Call(N(nm_G), 1, <<N(nm_y)>>, NoPos)>>, NoPos))

RulePool ==
    { RuleWrap,
      RuleGrow,
      Rule(Call(N(nm_same), 1, <<N(nm_x), N(nm_x)>>, NoPos),
           Call(N(nm_ok), 1, <<N(nm_x)>>, NoPos)),          \* same(x, x) -> ok(x)
      Rule(Call(N(nm_ok), 1, <<N(nm_y)>>, NoPos),
           Call(N(nm_G), 1, <<N(nm_y)>>, NoPos)),           \* ok(y) -> G(y)
      Rule(Call(N(nm_G), 1, <<N(nm_y)>>, NoPos),
           Call(N(nm_H), 1, <<N(nm_y)>>, NoPos)),           \* G(y) -> H(y)
      Rule(N(nm_fn), N(nm_G)),                               \* fn -> G
      Rule(Call(N(nm_iter), 1, <<N(nm_x)>>, NoPos), N(nm_x)),\* iter(x) -> x
      Rule(Bin(N(nm_x), 1, "+", N(nm_x)),
           Bin(N(nm_x), 1, "*", N(nm_H))),                   \* x + x -> x * H
      Rule(N(nm_e2), N(nm_H)),                               \* é -> H
      Rule(Sel(N(nm_r), N(nm_x)), Sel(N(nm_r), N(nm_y))),    \* r.x -> r.y
      RuleSelSel,
      RuleSameSel
    }

MaxRules == 2

RuleLists == UNION { [1..n -> RulePool] : n \in 0..MaxRules }

Atoms == { V(nm_q, 3), V(nm_q, 5), V(nm_r, 5), V(nm_fn, 3), V(nm_x, 3) }

ValPool ==
    Atoms
    \cup { Call(V(nm_same, 2), 2, <<a, b>>, NoPos) :
                a \in {V(nm_q, 3), Sel(V(nm_q, 3), V(nm_x, 4))},
                b \in {V(nm_q, 5), V(nm_r, 5), Sel(V(nm_q, 6), V(nm_x, 7)),
                       Sel(V(nm_q, 6), V(nm_y, 7))} }
    \cup { Call(V(nm_ok, 2), 2, <<V(nm_q, 3)>>, NoPos),
           Call(V(nm_G, 2), 2, <<V(nm_q, 3)>>, 4),
           Call(V(nm_iter, 2), 2, <<V(nm_fn, 3)>>, NoPos),
           Call(V(nm_fn, 2), 2, <<V(nm_r, 3)>>, NoPos),
           Bin(V(nm_q, 3), 4, "+", V(nm_q, 5)),
           Bin(V(nm_q, 3), 4, "+", V(nm_r, 5)),
           Sel(V(nm_q, 3), V(nm_x, 4)),
           Sel(V(nm_fn, 3), V(nm_fn, 4)),
           Sel(ParenExpr(2, StarExpr(3, V(nm_q, 4))), V(nm_x, 5)),
           Sel(ParenExpr(2, UnaryExpr(3, "&", V(nm_q, 4))), V(nm_x, 5)),
           Sel(ParenExpr(2, UnaryExpr(3, "-", V(nm_q, 4))), V(nm_x, 5)),
           Sel(ParenExpr(2, StarExpr(3, StarExpr(4, V(nm_r, 5)))), V(nm_x, 6)),
           Sel(ParenExpr(3, StarExpr(4, Sel(StarExpr(6, V(nm_q, 7)), V(nm_x, 8)))),
               V(nm_y, 9)),
           Bin(Call(V(nm_same, 2), 2, <<V(nm_r, 3), V(nm_r, 4)>>, NoPos), 5, "+",
               Call(V(nm_ok, 6), 6, <<V(nm_r, 7)>>, NoPos)) }

(***************************************************************************)
(* One visit of rewriteVal, step by step.                                  *)
(***************************************************************************)
RwInit ==
    /\ rwPc = "start"
    /\ rwRules \in RuleLists
    /\ rwIn \in ValPool
    /\ rwVal = rwIn
    /\ rwI = 1
    /\ rwApplied = <<>>

\* rewrite.go:61  val = apply(rewriteVal, val)
RwApply ==
    /\ rwPc = "start"
    /\ rwVal' = apply(rwRules, rwVal)
    /\ rwPc' = "rules"
    /\ UNCHANGED <<rwRules, rwIn, rwI, rwApplied>>
    /\ UNCHANGED rwOthers

\* The loop as it would be with a break after the first match.
RwTryRule_break ==
    /\ rwPc = "rules"
    /\ rwI <= Len(rwRules)
    /\ LET res == match(TRUE, NoMap, rwRules[rwI].old, rwVal)
       IN  /\ rwVal' = tryRule(rwRules[rwI], rwVal)
           /\ rwApplied' = IF res.ok THEN Append(rwApplied, rwI) ELSE rwApplied
           /\ rwI' = IF res.ok THEN Len(rwRules) + 1 ELSE rwI + 1
    /\ UNCHANGED <<rwPc, rwRules, rwIn>>
    /\ UNCHANGED rwOthers

\* The loop as it would be if a replacement were handed to the rules again
\* from the first one.
RwTryRule_again ==
    /\ rwPc = "rules"
    /\ rwI <= Len(rwRules)
    /\ LET res == match(TRUE, NoMap, rwRules[rwI].old, rwVal)
       IN  /\ rwVal' = tryRule(rwRules[rwI], rwVal)
           /\ rwApplied' = IF res.ok THEN Append(rwApplied, rwI) ELSE rwApplied
           /\ rwI' = IF res.ok /\ Len(rwApplied) < Len(rwRules) THEN 1 ELSE rwI + 1
    /\ UNCHANGED <<rwPc, rwRules, rwIn>>
    /\ UNCHANGED rwOthers

\* rewrite.go:63-72  one turn of "for _, r := range rules"
RwTryRule ==
    /\ rwPc = "rules"
    /\ rwI <= Len(rwRules)
    /\ LET res == match(TRUE, NoMap, rwRules[rwI].old, rwVal)
       IN  /\ rwVal' = tryRule(rwRules[rwI], rwVal)
           /\ rwApplied' = IF res.ok THEN Append(rwApplied, rwI) ELSE rwApplied
    /\ rwI' = rwI + 1
    /\ UNCHANGED <<rwPc, rwRules, rwIn>>
    /\ UNCHANGED rwOthers

\* rewrite.go:74  return val
RwReturn ==
    /\ rwPc = "rules"
    /\ rwI > Len(rwRules)
    /\ rwPc' = "done"
    /\ UNCHANGED <<rwRules, rwIn, rwVal, rwI, rwApplied>>
    /\ UNCHANGED rwOthers

\* rewrite.go:96  r = apply(rewriteVal, reflect.ValueOf(r)), the second pass
RwSelectorPass ==
    /\ rwPc = "done"
    /\ rwVal' = selectorPass(rwVal)
    /\ rwPc' = "out"
    /\ UNCHANGED <<rwRules, rwIn, rwI, rwApplied>>
    /\ UNCHANGED rwOthers

RwNext == RwApply \/ RwTryRule \/ RwReturn \/ RwSelectorPass

\* The control of rewriteFile's visit: the position and the loop index as
\* rewrite.go:61, 63, 74 and 96 move them.
RwAdvance ==
    \/ rwPc = "start" /\ rwPc' = "rules" /\ rwI' = rwI
    \/ rwPc = "rules" /\ rwI <= Len(rwRules) /\ rwPc' = "rules" /\ rwI' = rwI + 1
    \/ rwPc = "rules" /\ rwI > Len(rwRules) /\ rwPc' = "done" /\ rwI' = rwI
    \/ rwPc = "done" /\ rwPc' = "out" /\ rwI' = rwI


(***************************************************************************)
(* Claims about the rewrite engine.                                        *)
(***************************************************************************)
RwTrying == rwPc = "rules" /\ rwI <= Len(rwRules)

\* The identifiers of a pattern outside Sel position, each with its path.
Under(step, occ) == { [path |-> <<step>> \o o.path, name |-> o.name] : o \in occ }

ArgStep(i) == IF i = 1 THEN "arg1" ELSE IF i = 2 THEN "arg2" ELSE "arg3"

RECURSIVE IdentOcc(_)
IdentOcc(p) ==
    CASE p.k = "Ident" -> { [path |-> <<>>, name |-> p.name] }
      [] p.k = "Call"  -> Under("fun", IdentOcc(p.fun))
                          \cup UNION { Under(ArgStep(i), IdentOcc(p.args[i])) :
                                         i \in DOMAIN p.args }
      [] p.k = "Sel"   -> Under("x", IdentOcc(p.x))
      [] p.k = "Bin"   -> Under("x", IdentOcc(p.x)) \cup Under("y", IdentOcc(p.y))

RECURSIVE SubAt(_, _)
SubAt(v, path) ==
    IF path = <<>> THEN v
    ELSE LET s == Head(path)
         IN  CASE s = "fun"  -> SubAt(v.fun, Tail(path))
               [] s = "x"    -> SubAt(v.x, Tail(path))
               [] s = "y"    -> SubAt(v.y, Tail(path))
               [] s = "arg1" -> SubAt(v.args[1], Tail(path))
               [] s = "arg2" -> SubAt(v.args[2], Tail(path))
               [] s = "arg3" -> SubAt(v.args[3], Tail(path))

\* An expression with its positions forgotten (of Ellipsis, only whether it is set).
RECURSIVE StripPos(_)
StripPos(e) ==
    CASE e.k = "Ident" -> Ident(e.name, NoPos)
      [] e.k = "Call"  -> Call(StripPos(e.fun), NoPos,
                               [i \in DOMAIN e.args |-> StripPos(e.args[i])],
                               IF e.ellipsis = NoPos THEN 0 ELSE 1)
      [] e.k = "Sel"   -> Sel(StripPos(e.x), StripPos(e.sel))
      [] e.k = "Bin"   -> Bin(StripPos(e.x), NoPos, e.op, StripPos(e.y))
      [] e.k \in OneOperand -> [e EXCEPT !.pos = NoPos, !.x = StripPos(@)]

OneLowerRune(s) == Len(s) = 1 /\ s[1] \in LowerRunes
StartsLower(s) == s # <<>> /\ s[1] \in LowerRunes

PatSame == Call(N(nm_same), 1, <<N(nm_x), N(nm_x)>>, NoPos)
SameQQ == Call(V(nm_same, 2), 2, <<V(nm_q, 3), V(nm_q, 5)>>, NoPos)
SameQR == Call(V(nm_same, 2), 2, <<V(nm_q, 3), V(nm_r, 5)>>, NoPos)

\* C8: when the pattern of the rule being tried matches, the sub-expressions
\* of the value at all occurrences of one single-letter wildcard are
\* structurally equal (names compared, positions ignored); same(x, x)
\* matches same(q, q) and does not match same(q, r).
C8_RepeatedWildcardEqual ==
    /\ RwTrying =>
          LET p == rwRules[rwI].old
              res == match(TRUE, NoMap, p, rwVal)
          IN  res.ok =>
                \A o1, o2 \in IdentOcc(p) :
                    (OneLowerRune(o1.name) /\ o1.name = o2.name) =>
                        StripPos(SubAt(rwVal, o1.path)) = StripPos(SubAt(rwVal, o2.path))
    /\ (RwTrying /\ rwRules[rwI].old = PatSame) =>
          /\ rwVal = SameQQ => match(TRUE, NoMap, PatSame, rwVal).ok
          /\ rwVal = SameQR => ~match(TRUE, NoMap, PatSame, rwVal).ok

\* C8 witness: same(x, x) is tried on same(q, q), whose two q differ in
\* position only, and matches.
C8_Witness ==
    /\ RwTrying
    /\ rwRules[rwI].old = PatSame
    /\ rwVal = SameQQ
    /\ match(TRUE, NoMap, PatSame, rwVal).ok

\* C9 as the claim states it: a pattern identifier whose name starts with a
\* lowercase letter matches any expression.
C9_Original ==
    RwTrying =>
        LET p == rwRules[rwI].old
        IN  (p.k = "Ident" /\ StartsLower(p.name)) =>
                match(TRUE, NoMap, p, rwVal).ok

\* C9 amended: a pattern identifier is a wildcard exactly when its name is one
\* lowercase rune; such a pattern matches any expression and binds it, and
\* every other identifier of a matching pattern (fn, iter, an uppercase
\* letter) stands on an identifier of the same name.
C9_SingleRuneWildcard ==
    RwTrying =>
        LET p == rwRules[rwI].old
            res == match(TRUE, NoMap, p, rwVal)
        IN  /\ (p.k = "Ident" /\ OneLowerRune(p.name)) =>
                    (res.ok /\ res.m = (p.name :> rwVal))
            /\ (p.k = "Ident" /\ ~OneLowerRune(p.name)) =>
                    (res.ok <=> (rwVal.k = "Ident" /\ rwVal.name = p.name))
            /\ res.ok =>
                \A o \in IdentOcc(p) :
                    ~OneLowerRune(o.name) =>
                        /\ SubAt(rwVal, o.path).k = "Ident"
                        /\ SubAt(rwVal, o.path).name = o.name

\* C9 witness: the pattern fn is tried on a value that is not the identifier
\* fn, and does not match.
C9_Witness ==
    /\ RwTrying
    /\ rwRules[rwI].old = N(nm_fn)
    /\ rwVal = V(nm_q, 3)
    /\ ~match(TRUE, NoMap, rwRules[rwI].old, rwVal).ok

\* C10 as the claim states it: at most one rule is applied at a visit.
C10_Original == Len(rwApplied) <= 1

\* C10 amended: at a visit every rule gets its turn, in list order, against
\* the current value; a rule whose pattern matches the current value is
\* applied also when an earlier rule was applied at this visit, so a later
\* rule can rewrite the replacement of an earlier one.
C10_EveryRuleTried ==
    [][ RwTrying =>
            /\ rwI' = rwI + 1
            /\ rwPc' = "rules"
            /\ match(TRUE, NoMap, rwRules[rwI].old, rwVal).ok =>
                  /\ rwApplied' = Append(rwApplied, rwI)
                  /\ rwVal' = subst(TRUE, match(TRUE, NoMap, rwRules[rwI].old, rwVal).m,
                                    rwRules[rwI].new, TRUE, NodePos(rwVal))
            /\ ~match(TRUE, NoMap, rwRules[rwI].old, rwVal).ok =>
                  /\ rwApplied' = rwApplied
                  /\ rwVal' = rwVal ]_vars

\* C10 witness: the visit of same(q, q) under same(x, x) -> ok(x), ok(y) -> G(y)
\* has applied both rules, the second to the replacement of the first.
C10_Witness ==
    /\ rwPc = "done"
    /\ rwIn = SameQQ
    /\ rwApplied = <<1, 2>>
    /\ rwVal = Call(Ident(nm_G, 2), 2, <<V(nm_q, 3)>>, NoPos)

\* The nodes of an expression: itself and the nodes of its fields.
RECURSIVE RwNodes(_)
RwNodes(e) ==
    CASE e.k = "Ident" -> {e}
      [] e.k = "Call"  -> {e} \cup RwNodes(e.fun)
                              \cup UNION { RwNodes(e.args[i]) : i \in DOMAIN e.args }
      [] e.k = "Sel"   -> {e} \cup RwNodes(e.x) \cup {e.sel}
      [] e.k = "Bin"   -> {e} \cup RwNodes(e.x) \cup RwNodes(e.y)
      [] e.k \in OneOperand -> {e} \cup RwNodes(e.x)

RuleOkG == Rule(Call(N(nm_ok), 1, <<N(nm_y)>>, NoPos), Call(N(nm_G), 1, <<N(nm_y)>>, NoPos))
RuleGH == Rule(Call(N(nm_G), 1, <<N(nm_y)>>, NoPos), Call(N(nm_H), 1, <<N(nm_y)>>, NoPos))

\* A rule whose pattern matches its own replacement or a node inside it (a
\* lone wildcard matches every replacement): a list with such a rule is not
\* terminating.
RwTerminating ==
    \A i \in 1..Len(rwRules) : \A n \in RwNodes(rwRules[i].new) :
        ~match(TRUE, NoMap, rwRules[i].old, n).ok

\* C11 as the claim states it: when the visit of a node is over, no rule of
\* a terminating list matches the result or a node inside it.
C11_Original ==
    (rwPc = "done" /\ RwTerminating) =>
        \A i \in 1..Len(rwRules) : \A n \in RwNodes(rwVal) :
            ~match(TRUE, NoMap, rwRules[i].old, n).ok

\* C11 amended: a replacement is not traversed again.  At a visit the rules
\* are applied in strictly increasing list order, each at most once, and a
\* rule that still matches the result of the visit is one that had its turn
\* no later than a rule that was applied: the replacement is handed only to
\* the rules after the one that produced it.
C11_ReplacementNotRevisited ==
    /\ \A j, k \in 1..Len(rwApplied) : j < k => rwApplied[j] < rwApplied[k]
    /\ rwPc = "done" =>
          \A i \in 1..Len(rwRules) :
              match(TRUE, NoMap, rwRules[i].old, rwVal).ok =>
                  \E k \in 1..Len(rwApplied) : rwApplied[k] >= i

\* C11 witness: with the rules G(y) -> H(y), ok(y) -> G(y) the visit of
\* ok(q) ends with G(q), which the first rule matches.
C11_Witness ==
    /\ rwPc = "done"
    /\ rwRules = <<RuleGH, RuleOkG>>
    /\ rwIn = Call(V(nm_ok, 2), 2, <<V(nm_q, 3)>>, NoPos)
    /\ rwApplied = <<2>>
    /\ rwVal.fun.name = nm_G
    /\ match(TRUE, NoMap, RuleGH.old, rwVal).ok

\* The rule pass with one run of the rules per node of the input, children
\* before the node, every field but Sel.  With twice, a node held in an
\* expression field gets a second run in which only the rules whose pattern
\* is a lone wildcard can match.
C30_LoneWildcard(r) == r.old.k = "Ident" /\ isWildcard(r.old.name)

RECURSIVE C30_Run(_, _, _, _), C30_Visit(_, _, _), C30_Field(_, _, _)
C30_Run(rs, val, i, loneOnly) ==
    IF i > Len(rs) THEN val
    ELSE C30_Run(rs,
                 IF loneOnly /\ ~C30_LoneWildcard(rs[i]) THEN val
                 ELSE tryRule(rs[i], val),
                 i + 1, loneOnly)
C30_Visit(twice, rs, val) ==
    C30_Run(rs,
            CASE val.k = "Ident" -> val
              [] val.k = "Call"  ->
                    [val EXCEPT !.fun = C30_Field(twice, rs, val.fun),
                                !.args = [i \in DOMAIN val.args |->
                                             C30_Field(twice, rs, val.args[i])]]
              [] val.k = "Sel"   -> [val EXCEPT !.x = C30_Field(twice, rs, val.x)]
              [] val.k = "Bin"   -> [val EXCEPT !.x = C30_Field(twice, rs, val.x),
                                                !.y = C30_Field(twice, rs, val.y)]
              [] val.k \in OneOperand ->
                    [val EXCEPT !.x = C30_Field(twice, rs, val.x)],
            1, FALSE)
C30_Field(twice, rs, val) ==
    IF twice THEN C30_Run(rs, C30_Visit(twice, rs, val), 1, TRUE)
    ELSE C30_Visit(twice, rs, val)

\* The visit of the root gives every rule one turn and no more.
C30_OneTurnEach ==
    /\ rwI <= Len(rwRules) + 1
    /\ Len(rwApplied) < rwI
    /\ rwPc \in {"done", "out"} => rwI = Len(rwRules) + 1

\* C30 as the claim states it: rewriteFile ends, and the rule pass has run
\* the rules once at each node of the input.
C30_Original ==
    /\ <>(rwPc = "out")
    /\ [](rwPc = "done" => rwVal = C30_Visit(FALSE, rwRules, rwIn))

\* C30 amended: rewriteFile ends for every file and every rule list, rules
\* that match their own replacement included.  The rule pass runs over the
\* nodes of the input only, children first, and gives every rule one turn at
\* each run; a node held in an expression field gets two runs, the second
\* open only to lone wildcard patterns, which there meet the replacement
\* the first run produced.  The selector pass then runs once over the result.
C30_Terminates ==
    /\ <>(rwPc = "out")
    /\ []C30_OneTurnEach
    /\ [](rwPc = "done" => rwVal = C30_Visit(TRUE, rwRules, rwIn))
    /\ [](rwPc = "out" =>
            rwVal = selectorPass(C30_Visit(TRUE, rwRules, rwIn)))

\* C30 witness: under x -> f(x) alone the visit of fn(r) has come out as
\* f(f(f(fn))(f(f(r)))): the visited node wrapped once, each field twice.
C30_Witness ==
    /\ rwPc = "out"
    /\ rwRules = <<RuleWrap>>
    /\ rwIn = Call(V(nm_fn, 2), 2, <<V(nm_r, 3)>>, NoPos)
    /\ rwApplied = <<1>>
    /\ rwVal.k = "Call" /\ rwVal.fun.name = nm_f
    /\ rwVal.args[1].k = "Call"
    /\ rwVal.args[1].fun.k = "Call" /\ rwVal.args[1].fun.fun.name = nm_f
    /\ rwVal.args[1].fun.args[1].k = "Call"
    /\ rwVal.args[1].fun.args[1].args[1].k = "Ident"
    /\ rwVal.args[1].fun.args[1].args[1].name = nm_fn
    /\ rwVal.args[1].args[1].k = "Call"
    /\ rwVal.args[1].args[1].args[1].k = "Call"
    /\ rwVal.args[1].args[1].args[1].args[1].k = "Ident"
    /\ rwVal.args[1].args[1].args[1].args[1].name = nm_r

\* The position a position field of the replacement pattern has in the
\* result: as the claim states it, or as amended.
C12_PosOf(asClaimed, old, pos) ==
    IF asClaimed THEN (IF old = NoPos THEN pos ELSE old)
    ELSE (IF old = NoPos THEN NoPos ELSE pos)

\* v is pattern with its position fields set by C12_PosOf; a wildcard bound
\* in m (outside Sel position) stands for its binding, positions included.
RECURSIVE C12_Positions(_, _, _, _, _, _)
C12_Positions(asClaimed, useM, m, pattern, v, pos) ==
    IF useM /\ pattern.k = "Ident" /\ isWildcard(pattern.name) /\ pattern.name \in DOMAIN m
    THEN v = m[pattern.name]
    ELSE /\ v.k = pattern.k
         /\ CASE pattern.k = "Ident" ->
                    v.pos = C12_PosOf(asClaimed, pattern.pos, pos)
              [] pattern.k = "Call" ->
                    /\ v.lparen = C12_PosOf(asClaimed, pattern.lparen, pos)
                    /\ v.ellipsis = C12_PosOf(asClaimed, pattern.ellipsis, pos)
                    /\ C12_Positions(asClaimed, useM, m, pattern.fun, v.fun, pos)
                    /\ DOMAIN v.args = DOMAIN pattern.args
                    /\ \A i \in DOMAIN pattern.args :
                          C12_Positions(asClaimed, useM, m, pattern.args[i], v.args[i], pos)
              [] pattern.k = "Sel" ->
                    /\ C12_Positions(asClaimed, useM, m, pattern.x, v.x, pos)
                    /\ C12_Positions(asClaimed, FALSE, NoMap, pattern.sel, v.sel, pos)
              [] pattern.k = "Bin" ->
                    /\ v.oppos = C12_PosOf(asClaimed, pattern.oppos, pos)
                    /\ C12_Positions(asClaimed, useM, m, pattern.x, v.x, pos)
                    /\ C12_Positions(asClaimed, useM, m, pattern.y, v.y, pos)

\* C12 as the claim states it: in the value a rule application leaves, an
\* unset position field of the replacement has the position of the matched
\* node and a set one has its own value.
C12_Original ==
    [][ (RwTrying /\ match(TRUE, NoMap, rwRules[rwI].old, rwVal).ok) =>
            C12_Positions(TRUE, TRUE, match(TRUE, NoMap, rwRules[rwI].old, rwVal).m,
                          rwRules[rwI].new, rwVal', NodePos(rwVal)) ]_vars

\* C12 amended: in the value a rule application leaves, a position field of
\* the replacement that is set has the position of the matched node, a
\* position field that is unset stays unset, and what a wildcard stood for
\* keeps its own positions.
C12_SetPositionsMoved ==
    [][ (RwTrying /\ match(TRUE, NoMap, rwRules[rwI].old, rwVal).ok) =>
            C12_Positions(FALSE, TRUE, match(TRUE, NoMap, rwRules[rwI].old, rwVal).m,
                          rwRules[rwI].new, rwVal', NodePos(rwVal)) ]_vars

\* C12 witness: ok(y) -> G(y) was applied to ok(q) at position 2: G and the
\* parenthesis, set in the rule, are at 2, Ellipsis is still unset, q is
\* where it was.
C12_Witness ==
    /\ rwApplied = <<1>>
    /\ rwRules[1] = RuleOkG
    /\ rwIn = Call(V(nm_ok, 2), 2, <<V(nm_q, 3)>>, NoPos)
    /\ rwVal = Call(Ident(nm_G, 2), 2, <<V(nm_q, 3)>>, NoPos)

SelNodes(e) == { n \in RwNodes(e) : n.k = "Sel" }

\* Maps in which the name of a Sel identifier is unbound or bound.
C13_Maps(name, more) == {NoMap} \cup { name :> a : a \in Atoms \cup more }

\* C13: the Sel identifier of a selector is literal.  match on a selector
\* pattern succeeds exactly when X matches and the two Sel names are equal,
\* and leaves the map as the match of X left it, whether or not the Sel name
\* is a wildcard name and whether or not it is bound; subst copies the Sel
\* identifier with its name even when a wildcard of that name is bound.
C13_SelLiteral ==
    RwTrying =>
        /\ \A p \in SelNodes(rwRules[rwI].old), v \in SelNodes(rwVal) :
              \A m0 \in C13_Maps(p.sel.name, {v.sel}) :
                 LET r1 == match(TRUE, m0, p.x, v.x)
                     r  == match(TRUE, m0, p, v)
                 IN  /\ r.ok = (r1.ok /\ p.sel.name = v.sel.name)
                     /\ r.m = r1.m
        /\ \A p \in SelNodes(rwRules[rwI].new) :
              \A m0 \in C13_Maps(p.sel.name, {}) :
                 LET r == subst(TRUE, m0, p, TRUE, NodePos(rwVal))
                 IN  /\ r.k = "Sel"
                     /\ r.sel.k = "Ident"
                     /\ r.sel.name = p.sel.name

\* C13 witness: x.x -> G(x).x was applied to q.x: x was bound to q by X, the
\* Sel x matched the field x and stayed x in the result.
C13_Witness ==
    /\ rwApplied = <<1>>
    /\ rwRules[1] = RuleSelSel
    /\ rwIn = Sel(V(nm_q, 3), V(nm_x, 4))
    /\ rwVal.k = "Sel"
    /\ rwVal.x = Call(Ident(nm_G, NodePos(rwIn)), NodePos(rwIn), <<V(nm_q, 3)>>, NoPos)
    /\ rwVal.sel.name = nm_x

\* C14 as the claim states it: with no rules, the file rewriteFile returns
\* is equal to its input.
C14_Original == (rwPc = "out" /\ rwRules = <<>>) => rwVal = rwIn

\* The operand of a selector with one & or * (and the parentheses around
\* it) taken off.
C14_Operand(x) ==
    IF x.k = "Paren" /\ (x.x.k = "Star" \/ (x.x.k = "Unary" /\ x.x.op = "&")) THEN x.x.x
    ELSE IF x.k = "Star" \/ (x.k = "Unary" /\ x.op = "&") THEN x.x
    ELSE x

\* b is a with, in every selector, the operand replaced by C14_Operand.
RECURSIVE C14_SelectorsOnly(_, _)
C14_SelectorsOnly(a, b) ==
    /\ a.k = b.k
    /\ CASE a.k = "Ident" -> a = b
          [] a.k = "Call"  ->
                /\ a.lparen = b.lparen /\ a.ellipsis = b.ellipsis
                /\ C14_SelectorsOnly(a.fun, b.fun)
                /\ DOMAIN a.args = DOMAIN b.args
                /\ \A i \in DOMAIN a.args : C14_SelectorsOnly(a.args[i], b.args[i])
          [] a.k = "Sel"   ->
                /\ a.sel = b.sel
                /\ C14_SelectorsOnly(C14_Operand(a.x), b.x)
          [] a.k = "Bin"   ->
                /\ a.op = b.op /\ a.oppos = b.oppos
                /\ C14_SelectorsOnly(a.x, b.x)
                /\ C14_SelectorsOnly(a.y, b.y)
          [] a.k \in OneOperand ->
                /\ a.op = b.op /\ a.pos = b.pos
                /\ C14_SelectorsOnly(a.x, b.x)

C14_HasDerefSelector(e) == \E n \in SelNodes(e) : C14_Operand(n.x) # n.x

\* C14 amended: with no rules the rule pass of rewriteFile changes nothing,
\* and the file returned differs from the input exactly in the selectors
\* whose operand is &x or *x, parenthesised or not, where the operand has
\* become x; a file with no such selector is returned equal to its input.
C14_NoRulesOnlySelectors ==
    rwRules = <<>> =>
        /\ rwPc \in {"rules", "done"} => rwVal = rwIn
        /\ rwPc = "out" =>
              /\ C14_SelectorsOnly(rwIn, rwVal)
              /\ (rwVal = rwIn) = ~C14_HasDerefSelector(rwIn)

\* C14 witness: with no rules, field y of the dereferenced field x of the
\* dereferenced q was returned as q.x.y.
C14_Witness ==
    /\ rwPc = "out"
    /\ rwRules = <<>>
    /\ rwIn.k = "Sel" /\ rwIn.x.k = "Paren" /\ rwIn.x.x.k = "Star"
    /\ rwVal = Sel(Sel(V(nm_q, 7), V(nm_x, 8)), V(nm_y, 9))

(***************************************************************************)
(* The C tree (package cc): expressions, statements, labels.  Every node   *)
(* has all the fields of its Go struct; NilE and NilS are the nil          *)
(* pointers.  A declaration or a type is named by its identity (a number,  *)
(* 0 for nil), as a *cc.Decl or *cc.Type names it.                          *)
(***************************************************************************)
NilE == [op |-> "nil"]
NilS == [op |-> "nil"]

MkE(op, text, left, right, list) ==
    [op |-> op, text |-> text, left |-> left, right |-> right, list |-> list,
     block |-> <<>>, after |-> <<>>, xdecl |-> 0, xtype |-> "none"]

Name(text, d) == [MkE("Name", text, NilE, NilE, <<>>) EXCEPT !.xdecl = d]
Number(text) == MkE("Number", text, NilE, NilE, <<>>)
Unary(op, l) == MkE(op, "", l, NilE, <<>>)
Binary(op, l, r) == MkE(op, "", l, r, <<>>)
Listed(op, l, list) == MkE(op, "", l, NilE, list)
Dot(l, field) == MkE("Dot", field, l, NilE, <<>>)

\* fresh marks a statement allocated by addToBlock (decls.go:113), after the
\* uses map of moveFuncDecls was filled: the map has no entry for it.
MkS(op) ==
    [op |-> op, pre |-> NilE, expr |-> NilE, post |-> NilE, body |-> NilS,
     els |-> NilS, block |-> <<>>, decl |-> 0, labels |-> <<>>, text |-> "",
     fresh |-> FALSE]

StmtExpr(x) == [MkS("StmtExpr") EXCEPT !.expr = x]
StmtDecl(d) == [MkS("StmtDecl") EXCEPT !.decl = d]
Block(list) == [MkS("Block") EXCEPT !.block = list]
Goto(l) == [MkS("Goto") EXCEPT !.text = l]
Labeled(s, labs) == [s EXCEPT !.labels = labs]
Label(op, name) == [op |-> op, name |-> name]

(***************************************************************************)
(* renameDecls (rename.go).                                                *)
(***************************************************************************)
goKeyword ==
    {"chan", "defer", "fallthrough", "func", "go", "import", "interface",
     "iota", "map", "package", "range", "select", "type", "var",
     "fmt", "path", "rune", "true", "false"}

\* x.Name += "_" under goKeyword[x.Name]
escape(name) == IF name \in goKeyword THEN name \o "_" ELSE name

\* The visit of one expression and one statement by the Preorder callback
\* (rename.go:56-76), with the walk into their children.
RECURSIVE escapeExpr(_), escapeStmt(_)

escapeText_decl_only(x) == x.text

escapeText(x) ==
    IF x.op \in {"Dot", "Arrow", "Name"} THEN escape(x.text) ELSE x.text

escapeExpr(x) ==
    IF x.op = "nil" THEN x
    ELSE [x EXCEPT !.text = escapeText(x),
                   !.left = escapeExpr(x.left),
                   !.right = escapeExpr(x.right),
                   !.list = [i \in DOMAIN x.list |-> escapeExpr(x.list[i])],
                   !.block = [i \in DOMAIN x.block |-> escapeStmt(x.block[i])],
                   !.after = [i \in DOMAIN x.after |-> escapeStmt(x.after[i])]]

escapeStmt(s) ==
    IF s.op = "nil" THEN s
    ELSE [s EXCEPT !.labels = [i \in DOMAIN s.labels |->
                                 [s.labels[i] EXCEPT !.name = escape(s.labels[i].name)]],
                   !.text = IF s.op = "Goto" THEN escape(s.text) ELSE s.text,
                   !.pre = escapeExpr(s.pre),
                   !.expr = escapeExpr(s.expr),
                   !.post = escapeExpr(s.post),
                   !.body = escapeStmt(s.body),
                   !.els = escapeStmt(s.els),
                   !.block = [i \in DOMAIN s.block |-> escapeStmt(s.block[i])]]

\* The visit of one declaration (rename.go:50-54) and of its Init and Body.
escapeDecl(d) ==
    [d EXCEPT !.name = escape(d.name),
              !.init = escapeExpr(d.init),
              !.body = escapeStmt(d.body)]

\* filepath.Base(d.Span.Start.File) cut at its first "."; a file is its
\* directory and the "."-separated parts of its base name.
fileStem(file) == file.base[1]

\* rename.go:81-86
typedefsOf(prog, decl) ==
    [t \in { decl[prog[i]].type : i \in DOMAIN prog } |->
        LET is == { i \in DOMAIN prog :
                      decl[prog[i]].type = t /\ "Typedef" \in decl[prog[i]].storage }
        IN  IF is = {} THEN 0
            ELSE prog[CHOOSE i \in is : \A j \in is : j <= i]]

\* rename.go:89-129, one turn of the loop over prog.Decls: st holds the
\* declarations, the types and the list so far.
collectOne(st, d, typedefs) ==
    LET D == st.decl[d]
        T == st.type[D.type]
        td == typedefs[D.type]
    IN  IF D.blank THEN [st EXCEPT !.out = Append(@, d)]
        ELSE IF D.name = "" THEN
            IF td # 0 THEN
                [st EXCEPT !.decl = [@ EXCEPT ![td].blank = TRUE,
                                              ![d].name = st.decl[td].name,
                                              ![d].storage = @ \cup {"Typedef"}],
                           !.out = Append(@, d)]
            ELSE IF T.kind = "Struct" THEN
                IF T.tag # "" THEN
                    [st EXCEPT !.out = Append(@, d),
                               !.decl = [@ EXCEPT ![d].name = T.tag,
                                                  ![d].storage = {"Typedef"}],
                               !.type = [@ EXCEPT ![D.type].typedecl =
                                            IF @ = 0 THEN d ELSE @]]
                ELSE
                    [st EXCEPT !.decl = [@ EXCEPT ![d].blank = TRUE],
                               !.out = Append(@, d),
                               !.type = [@ EXCEPT ![D.type].typedecl =
                                            IF @ = 0 THEN d ELSE @]]
            ELSE IF T.kind = "Enum" THEN
                [st EXCEPT !.decl = [@ EXCEPT ![d].blank = TRUE],
                           !.out = Append(@, d) \o T.decls]
            ELSE st
        ELSE
            [st EXCEPT !.out = Append(@, d),
                       !.type = IF "Typedef" \in D.storage /\ D.type # 0
                                   /\ st.type[D.type].typedecl = 0
                                THEN [@ EXCEPT ![D.type].typedecl = d]
                                ELSE @]

RECURSIVE collect(_, _, _, _)
collect(st, prog, typedefs, i) ==
    IF i > Len(prog) THEN st
    ELSE collect(collectOne(st, prog[i], typedefs), prog, typedefs, i + 1)

\* rename.go:132-143: count[d.Name] over the non-blank declarations.
countNames(decl, out) ==
    [n \in { decl[out[i]].name : i \in DOMAIN out } |->
        Cardinality({ i \in DOMAIN out :
                        ~decl[out[i]].blank /\ decl[out[i]].name = n })]

countOf(count, n) == IF n \in DOMAIN count THEN count[n] ELSE 0

\* rename.go:155-166: the static locals of the function's top-level block.
RECURSIVE prefixStatics(_, _, _, _)
prefixStatics(decl, fname, blk, i) ==
    IF i > Len(blk) THEN decl
    ELSE LET s == blk[i]
             next == IF s.op = "StmtDecl" /\ "Static" \in decl[s.decl].storage
                     THEN [decl EXCEPT ![s.decl].name = fname \o "_" \o @]
                     ELSE decl
         IN  prefixStatics(next, fname, blk, i + 1)

\* rename.go:146-167, one turn of the loop over decls.
renameOne(decl, type, count, d) ==
    LET d1 == IF countOf(count, decl[d].name) > 1
              THEN [decl EXCEPT ![d].name = @ \o "_" \o fileStem(decl[d].file)]
              ELSE decl
        D == d1[d]
    IN  IF D.type # 0 /\ type[D.type].kind = "Func" /\ D.body.op # "nil"
        THEN prefixStatics(d1, D.name, D.body.block, 1)
        ELSE d1

RECURSIVE renameAll(_, _, _, _, _)
renameAll(decl, type, count, out, i) ==
    IF i > Len(out) THEN decl
    ELSE renameAll(renameOne(decl, type, count, out[i]), type, count, out, i + 1)

\* renameDecls as a whole: the declarations and types after it, and the list
\* it returns.
renameDecls(decl, type, prog) ==
    LET escaped == [d \in DOMAIN decl |-> escapeDecl(decl[d])]
        st == collect([decl |-> escaped, type |-> type, out |-> <<>>],
                      prog, typedefsOf(prog, escaped), 1)
    IN  [decl |-> renameAll(st.decl, st.type, countNames(st.decl, st.out), st.out, 1),
         type |-> st.type,
         out |-> st.out]

(***************************************************************************)
(* Programs handed to renameDecls: one file with a variable (1), a         *)
(* function prototype (2), a struct definition (5), a typedef (6), an enum *)
(* (7) with one enumerator (8) and a function definition (3) whose body    *)
(* declares a local (4) and uses the others.                               *)
(***************************************************************************)
MkDecl(name, storage, type, body) ==
    [name |-> name, blank |-> FALSE, storage |-> storage, type |-> type,
     file |-> [dir |-> "", base |-> <<"x">>], init |-> NilE, body |-> body]

MkType(kind, tag, decls) ==
    [kind |-> kind, tag |-> tag, decls |-> decls, typedecl |-> 0]

RnFiles == { [dir |-> "src", base |-> <<"x", "c">>],
             [dir |-> "", base |-> <<"lex", "yy", "c">>] }

RnBody(a, b, l, e) ==
    Block(<< StmtDecl(4),
             StmtExpr(Binary("Eq", Name(l, 4), Name(a, 1))),
             StmtExpr(Listed("Call", Name(b, 2), <<Name(e, 8)>>)),
             StmtExpr(Dot(Name(a, 1), "type")),
             Labeled(Goto("go"), <<Label("LabelName", "go")>>) >>)

RnProgram(a, b, bBlank, fn, l, lStorage, tag, td, tdType, e, file) ==
    [decl |->
        [i \in 1..8 |->
            [ ( 1 :> MkDecl(a, {}, 1, NilS)
             @@ 2 :> [MkDecl(b, {}, 2, NilS) EXCEPT !.blank = bBlank]
             @@ 3 :> MkDecl(fn, {}, 2, RnBody(a, b, l, e))
             @@ 4 :> MkDecl(l, lStorage, 1, NilS)
             @@ 5 :> MkDecl("", {}, 3, NilS)
             @@ 6 :> MkDecl(td, {"Typedef"}, tdType, NilS)
             @@ 7 :> MkDecl("", {}, 4, NilS)
             @@ 8 :> MkDecl(e, {}, 1, NilS) )[i] EXCEPT !.file = file ]],
     type |->
        ( 1 :> MkType("Int", "", <<>>)
       @@ 2 :> MkType("Func", "", <<>>)
       @@ 3 :> MkType("Struct", tag, <<>>)
       @@ 4 :> MkType("Enum", "", <<8>>) )]

\* prog.Decls
RnProgDecls == <<1, 2, 5, 6, 7, 3>>

RnPrograms ==
    { RnProgram(a, b, bBlank, fn, l, lStorage, tag, td, tdType, e, file) :
        a \in {"f", "type"}, b \in {"f", "type", "g"}, bBlank \in BOOLEAN,
        fn \in {"m", "f"}, l \in {"n", "go"}, lStorage \in {{}, {"Static"}},
        tag \in {"", "S", "map"}, td \in {"T", "f"}, tdType \in {1, 3},
        e \in {"E", "f"}, file \in RnFiles }

RnInit ==
    /\ rnPc = "escape"
    /\ \E p \in RnPrograms :
          /\ rnIn = p.decl
          /\ rnDecl = p.decl
          /\ rnType = p.type
    /\ rnOut = <<>>
    /\ rnCount = <<>>

\* rename.go:48-77: the Preorder walk reaches every declaration of the program.
RnEscape ==
    /\ rnPc = "escape"
    /\ rnDecl' = [d \in DOMAIN rnDecl |-> escapeDecl(rnDecl[d])]
    /\ rnPc' = "collect"
    /\ UNCHANGED <<rnIn, rnType, rnOut, rnCount>>
    /\ UNCHANGED rnOthers

\* rename.go:79-129
RnCollect ==
    /\ rnPc = "collect"
    /\ LET st == collect([decl |-> rnDecl, type |-> rnType, out |-> <<>>],
                         RnProgDecls, typedefsOf(RnProgDecls, rnDecl), 1)
       IN  /\ rnDecl' = st.decl
           /\ rnType' = st.type
           /\ rnOut' = st.out
    /\ rnPc' = "count"
    /\ UNCHANGED <<rnIn, rnCount>>
    /\ UNCHANGED rnOthers

\* rename.go:131-143
RnCount ==
    /\ rnPc = "count"
    /\ rnCount' = countNames(rnDecl, rnOut)
    /\ rnPc' = "rename"
    /\ UNCHANGED <<rnIn, rnDecl, rnType, rnOut>>
    /\ UNCHANGED rnOthers

\* rename.go:145-169
RnRename ==
    /\ rnPc = "rename"
    /\ rnDecl' = renameAll(rnDecl, rnType, rnCount, rnOut, 1)
    /\ rnPc' = "done"
    /\ UNCHANGED <<rnIn, rnType, rnOut, rnCount>>
    /\ UNCHANGED rnOthers

RnNext == RnEscape \/ RnCollect \/ RnCount \/ RnRename

(***************************************************************************)
(* Claims about renameDecls.                                               *)
(***************************************************************************)
\* The Name expressions under an expression and under a statement.
RECURSIVE NamesInExpr(_), NamesInStmt(_)
NamesInExpr(x) ==
    IF x.op = "nil" THEN {}
    ELSE (IF x.op = "Name" THEN {x} ELSE {})
         \cup NamesInExpr(x.left) \cup NamesInExpr(x.right)
         \cup UNION { NamesInExpr(x.list[i]) : i \in DOMAIN x.list }
         \cup UNION { NamesInStmt(x.block[i]) : i \in DOMAIN x.block }
         \cup UNION { NamesInStmt(x.after[i]) : i \in DOMAIN x.after }
NamesInStmt(s) ==
    IF s.op = "nil" THEN {}
    ELSE NamesInExpr(s.pre) \cup NamesInExpr(s.expr) \cup NamesInExpr(s.post)
         \cup NamesInStmt(s.body) \cup NamesInStmt(s.els)
         \cup UNION { NamesInStmt(s.block[i]) : i \in DOMAIN s.block }

RnNameExprs ==
    UNION { NamesInStmt(rnDecl[d].body) \cup NamesInExpr(rnDecl[d].init) :
              d \in DOMAIN rnDecl }

\* The declaration got the _<filebase> suffix (rename.go:147-153).
RnSuffixed(d) ==
    /\ \E i \in DOMAIN rnOut : rnOut[i] = d
    /\ countOf(rnCount, escape(rnIn[d].name)) > 1

\* The declaration is a static local of the top-level block of function f
\* (rename.go:155-165).
RnStaticIn(d, f) ==
    /\ \E i \in DOMAIN rnOut : rnOut[i] = f
    /\ rnDecl[f].type # 0 /\ rnType[rnDecl[f].type].kind = "Func"
    /\ rnDecl[f].body.op # "nil"
    /\ \E i \in DOMAIN rnDecl[f].body.block :
          /\ rnDecl[f].body.block[i].op = "StmtDecl"
          /\ rnDecl[f].body.block[i].decl = d
    /\ "Static" \in rnDecl[d].storage

\* C6 as the claim states it: after renameDecls every Name expression with
\* XDecl set has Text = XDecl.Name.
C6_Original ==
    rnPc = "done" =>
        \A x \in RnNameExprs : x.xdecl # 0 => rnDecl[x.xdecl].name = x.text

\* C6 amended: after renameDecls the Text of every Name expression with
\* XDecl set is the declaration's name as the reserved-word escape left it;
\* XDecl.Name equals Text when the declaration got neither the _<filebase>
\* suffix nor the function-name prefix, and is Text with that suffix or
\* prefix added when it did.
C6_TextIsEscapedName ==
    rnPc = "done" =>
        \A x \in RnNameExprs : x.xdecl # 0 =>
            LET d == rnDecl[x.xdecl]
                statics == { f \in DOMAIN rnDecl : RnStaticIn(x.xdecl, f) }
            IN  /\ x.text = escape(rnIn[x.xdecl].name)
                /\ (~RnSuffixed(x.xdecl) /\ statics = {}) => d.name = x.text
                /\ (RnSuffixed(x.xdecl) /\ statics = {}) =>
                        d.name = x.text \o "_" \o fileStem(d.file)
                /\ (~RnSuffixed(x.xdecl) /\ statics # {}) =>
                        \E f \in statics : d.name = rnDecl[f].name \o "_" \o x.text

\* C6 witness: a use of a declaration named type, escaped on both sides to
\* type_, beside a use of a declaration that got the file suffix.
C6_Witness ==
    /\ rnPc = "done"
    /\ \E x \in RnNameExprs :
          /\ x.xdecl # 0 /\ x.text = "type_" /\ rnDecl[x.xdecl].name = "type_"
    /\ \E x \in RnNameExprs :
          /\ x.xdecl # 0 /\ RnSuffixed(x.xdecl)
          /\ rnDecl[x.xdecl].name = x.text \o "_" \o fileStem(rnDecl[x.xdecl].file)

\* C7: after renameDecls the names of the non-blank declarations of the
\* returned list are pairwise distinct.
C7_DistinctNames ==
    rnPc = "done" =>
        \A i, j \in DOMAIN rnOut :
            (i < j /\ ~rnDecl[rnOut[i]].blank /\ ~rnDecl[rnOut[j]].blank) =>
                rnDecl[rnOut[i]].name # rnDecl[rnOut[j]].name

\* The statements and the expressions under a statement and an expression.
RECURSIVE RnStmtsIn(_), RnExprsIn(_), RnExprsOf(_)
RnStmtsIn(s) ==
    IF s.op = "nil" THEN {}
    ELSE {s} \cup RnStmtsIn(s.body) \cup RnStmtsIn(s.els)
             \cup UNION { RnStmtsIn(s.block[i]) : i \in DOMAIN s.block }
RnExprsIn(x) ==
    IF x.op = "nil" THEN {}
    ELSE {x} \cup RnExprsIn(x.left) \cup RnExprsIn(x.right)
             \cup UNION { RnExprsIn(x.list[i]) : i \in DOMAIN x.list }
RnExprsOf(s) == RnExprsIn(s.pre) \cup RnExprsIn(s.expr) \cup RnExprsIn(s.post)

RnAllStmts == UNION { RnStmtsIn(rnDecl[d].body) : d \in DOMAIN rnDecl }

\* The declarations of the returned list and the declarations made in a
\* function body.
RnDeclared ==
    { rnOut[i] : i \in DOMAIN rnOut }
    \cup { s.decl : s \in { t \in RnAllStmts : t.op = "StmtDecl" } }

\* C19: after renameDecls no declaration of the returned list or of a
\* function body, no label, no goto target and no . or -> selector has a
\* reserved word as its name.
C19_NoReservedNames ==
    rnPc = "done" =>
        /\ \A d \in RnDeclared : rnDecl[d].name \notin goKeyword
        /\ \A s \in RnAllStmts :
              /\ \A i \in DOMAIN s.labels : s.labels[i].name \notin goKeyword
              /\ s.op = "Goto" => s.text \notin goKeyword
              /\ \A x \in RnExprsOf(s) :
                    x.op \in {"Dot", "Arrow"} => x.text \notin goKeyword


(***************************************************************************)
(* rewriteSwitch (syntax rewriter): reshaping of a switch body.            *)
(***************************************************************************)
\* decls.go:17-31, applied to the Block list of a Block statement.
RECURSIVE inlineList(_, _)
inlineList(block, i) ==
    IF i > Len(block) THEN <<>>
    ELSE IF block[i].op = "BlockNoBrace"
         THEN <<[block[i] EXCEPT !.op = "Empty", !.block = <<>>]>>
              \o block[i].block \o inlineList(block, i + 1)
         ELSE <<block[i]>> \o inlineList(block, i + 1)

inlineBlockNoBrace(x) ==
    IF x.op = "Block" THEN [x EXCEPT !.block = inlineList(x.block, 1)] ELSE x

fallsThrough(x) ==
    CASE x.op \in {"Break", "Continue", "Return", "Goto"} -> FALSE
      [] x.op = "StmtExpr" ->
            ~ \/ /\ x.expr.op = "Call" /\ x.expr.left.op = "Name"
                 /\ x.expr.left.text \in {"sysfatal", "fatal"}
              \/ x.expr.op = "Name" /\ x.expr.text = "fallthrough"
      [] OTHER -> TRUE

\* for i >= 0 && out[i].Op == cc.Empty { i-- }; 0 stands for Go's -1.
RECURSIVE skipEmpty(_, _)
skipEmpty(out, i) ==
    IF i >= 1 /\ out[i].op = "Empty" THEN skipEmpty(out, i - 1) ELSE i

IsName(lab) == lab.op = "LabelName"
IsDefault(lab) == lab.op = "Default"
IsCase(lab) == lab.op \notin {"LabelName", "Default"}

\* The labels of stmt with the cases first, default last among them, then
\* the names (rewriteSwitch, the loop over stmt.Labels).
switchCases(labels) ==
    LET defs == SelectSeq(labels, IsDefault)
    IN  SelectSeq(labels, IsCase)
        \o (IF defs # <<>> THEN <<defs[Len(defs)]>> ELSE <<>>)

switchLabels(labels) ==
    LET names == SelectSeq(labels, IsName)
        cases == switchCases(labels)
    IN  IF Len(cases) > 0 /\ Len(names) > 0 THEN cases \o names ELSE labels

\* The ending of the previous case group when a new case starts
\* (rewriteSwitch, "Remove break or add fallthrough if needed").
closeGroup(out) ==
    LET i == skipEmpty(out, Len(out))
    IN  IF i >= 1 /\ out[i].op = "Break" /\ out[i].labels = <<>>
        THEN [out EXCEPT ![i].op = "Empty"]
        ELSE IF i >= 1 /\ fallsThrough(out[i])
             THEN Append(out, MkS("Fallthrough"))
             ELSE out

\* rewriteSwitch, "Remove final break".
removeFinalBreak(out) ==
    LET i == skipEmpty(out, Len(out))
    IN  IF i >= 1 /\ out[i].op = "Break" /\ out[i].labels = <<>>
        THEN [out EXCEPT ![i].op = "Empty"]
        ELSE out

\* The body of the loop over swt.Body.Block, for one stmt.
switchStep(st, stmt) ==
    LET isCase == Len(switchCases(stmt.labels)) > 0
        stmt1 == [stmt EXCEPT !.labels = switchLabels(stmt.labels)]
        out1 == IF isCase /\ st.haveCase THEN closeGroup(st.out) ELSE st.out
    IN  [out |-> Append(out1, stmt1), haveCase |-> (st.haveCase \/ isCase)]

RECURSIVE switchLoop(_, _, _)
switchLoop(block, i, st) ==
    IF i > Len(block) THEN st
    ELSE switchLoop(block, i + 1, switchStep(st, block[i]))

\* rewriteSwitch as a whole.
rewriteSwitch(swt) ==
    LET body == inlineBlockNoBrace(swt.body)
        st == switchLoop(body.block, 1, [out |-> <<>>, haveCase |-> FALSE])
    IN  [swt EXCEPT !.body = [body EXCEPT !.block = removeFinalBreak(st.out)]]

\* Statements of a switch body.
CallStmt(f) == StmtExpr(Listed("Call", Name(f, 0), <<>>))
CaseLab == Label("Case", "1")
DefaultLab == Label("Default", "")
NameLab == Label("LabelName", "L")

RsStmts ==
    { MkS("Break"), MkS("Return"), MkS("Continue"), Goto("L"), MkS("Empty"),
      CallStmt("g"), CallStmt("sysfatal"), StmtExpr(Name("fallthrough", 0)),
      Labeled(CallStmt("g"), <<CaseLab>>),
      Labeled(MkS("Empty"), <<CaseLab>>),
      Labeled(MkS("Break"), <<CaseLab>>),
      Labeled(MkS("Break"), <<NameLab>>),
      Labeled(CallStmt("g"), <<NameLab, DefaultLab, CaseLab>>),
      Labeled([MkS("BlockNoBrace") EXCEPT !.block = <<CallStmt("g"), MkS("Break")>>],
              <<CaseLab>>) }

MaxBody == 3

RsBodies == UNION { [1..n -> RsStmts] : n \in 1..MaxBody }

RsInit ==
    /\ rsPc = "inline"
    /\ \E b \in RsBodies : rsIn = Block(b) /\ rsBody = Block(b)
    /\ rsOut = <<>>
    /\ rsHaveCase = FALSE
    /\ rsI = 0

\* inlineBlockNoBrace(swt.Body)
RsInline ==
    /\ rsPc = "inline"
    /\ rsBody' = inlineBlockNoBrace(rsBody)
    /\ rsPc' = "loop"
    /\ rsI' = 1
    /\ UNCHANGED <<rsIn, rsOut, rsHaveCase>>
    /\ UNCHANGED rsOthers

\* One iteration of for _, stmt := range swt.Body.Block.
RsStmt ==
    /\ rsPc = "loop"
    /\ rsI <= Len(rsBody.block)
    /\ LET st == switchStep([out |-> rsOut, haveCase |-> rsHaveCase],
                            rsBody.block[rsI])
       IN  /\ rsOut' = st.out
           /\ rsHaveCase' = st.haveCase
    /\ rsI' = rsI + 1
    /\ UNCHANGED <<rsPc, rsIn, rsBody>>
    /\ UNCHANGED rsOthers

\* Remove final break; swt.Body.Block = out.
RsFinish ==
    /\ rsPc = "loop"
    /\ rsI > Len(rsBody.block)
    /\ rsBody' = [rsBody EXCEPT !.block = removeFinalBreak(rsOut)]
    /\ rsPc' = "done"
    /\ UNCHANGED <<rsIn, rsOut, rsHaveCase, rsI>>
    /\ UNCHANGED rsOthers

RsNext == RsInline \/ RsStmt \/ RsFinish

(***************************************************************************)
(* Claims about rewriteSwitch.                                             *)
(***************************************************************************)
RsIsCaseStmt(s) == \E i \in DOMAIN s.labels : ~IsName(s.labels[i])

\* Positions of the statements that start a case group.
RsHeads(block) == { i \in DOMAIN block : RsIsCaseStmt(block[i]) }

\* The last position before j, not below the head h of the group, whose
\* statement is more than an unlabeled Empty placeholder.
RECURSIVE RsLast(_, _, _)
RsLast(block, h, j) ==
    IF j > h /\ block[j].op = "Empty" /\ block[j].labels = <<>>
    THEN RsLast(block, h, j - 1)
    ELSE j

\* The switch body as written, with brace-less blocks spliced in.
RsWritten == inlineBlockNoBrace(rsIn).block

\* The position in the reshaped body of statement k of the body as written:
\* the reshaped body is the written one with fallthrough statements added.
RECURSIVE RsPosOf(_, _, _)
RsPosOf(block, k, i) ==
    IF block[i].op = "Fallthrough" THEN RsPosOf(block, k, i + 1)
    ELSE IF k = 1 THEN i ELSE RsPosOf(block, k - 1, i + 1)

\* C4: after rewriteSwitch no case group ends with an unlabeled break, and
\* of two consecutive case groups the last statement of the earlier one is
\* non-fall-through (as written: a break that was removed counts) or is
\* immediately followed by an inserted fallthrough.
C4_GroupsClosed ==
    rsPc = "done" =>
        LET out == rsBody.block
            src == RsWritten
        IN  /\ \A j \in RsHeads(out) :
                  (\E h \in RsHeads(out) : h < j) =>
                      ~(out[j - 1].op = "Break" /\ out[j - 1].labels = <<>>)
            /\ ~(out[Len(out)].op = "Break" /\ out[Len(out)].labels = <<>>
                 /\ RsHeads(out) # {})
            /\ \A h, j \in RsHeads(src) :
                  (h < j /\ ~\E m \in RsHeads(src) : h < m /\ m < j) =>
                      LET l == RsLast(src, h, j - 1)
                          p == RsPosOf(out, l, 1)
                      IN  \/ ~fallsThrough(src[l])
                          \/ /\ p < Len(out)
                             /\ \E q \in (p + 1)..Len(out) :
                                   /\ out[q].op = "Fallthrough"
                                   /\ \A r \in (p + 1)..(q - 1) :
                                         out[r].op = "Empty" /\ out[r].labels = <<>>


(***************************************************************************)
(* do and writeGo (main.go): the parse loop and the order of the stages.   *)
(* The C parser, the Go parser and the Go formatter are outside the        *)
(* program; what they return is chosen freely.                             *)
(***************************************************************************)
\* The texts a diagnostic line is made of: the three prompts of main.go:118
\* and other text.  A line is a sequence of such texts, a word the sequence
\* that follows a prompt.
prompts == << "syntax error near ", "invalid function definition for ",
              "likely type near " >>

\* strings.Index(line, p); 0 stands for Go's -1.
Index(line, p) ==
    IF \E i \in DOMAIN line : line[i] = p
    THEN CHOOSE i \in DOMAIN line :
            line[i] = p /\ \A j \in DOMAIN line : line[j] = p => i <= j
    ELSE 0

\* line[i+len(p):]
wordAfter(line, i) == SubSeq(line, i + 1, Len(line))

\* main.go:126-132 without the haveType test.
addWord_always(st, word) ==
    [have |-> st.have \cup {word}, types |-> Append(st.types, word)]

\* main.go:126-132
addWord(st, word) ==
    IF word \notin st.have
    THEN [have |-> st.have \cup {word}, types |-> Append(st.types, word)]
    ELSE st

\* a mutant of scanLine: only the last prompt of the list is looked for
scanLine_third(st, line, k) ==
    IF Index(line, prompts[3]) > 0
    THEN addWord(st, wordAfter(line, Index(line, prompts[3])))
    ELSE st

\* main.go:123-135: the first prompt, in the order of the list, that occurs
\* in the line decides; then break.
RECURSIVE scanLine(_, _, _)
scanLine(st, line, k) ==
    IF k > Len(prompts) THEN st
    ELSE IF Index(line, prompts[k]) > 0
         THEN addWord(st, wordAfter(line, Index(line, prompts[k])))
         ELSE scanLine(st, line, k + 1)

\* main.go:117-136
RECURSIVE scanErr(_, _, _)
scanErr(st, err, i) ==
    IF i > Len(err) THEN st
    ELSE scanErr(scanLine(st, err[i], 1), err, i + 1)

\* Diagnostic lines the C parser may produce.
DoLines ==
    { <<"x.c:1: ", prompts[1], "T">>,
      <<prompts[2], "T">>,
      <<"x.c:2: ", prompts[3], "U">>,
      <<"x.c:3: ", "unexpected ", "T">>,
      <<prompts[3], prompts[1], "V">>,
      <<prompts[1], prompts[3], "V">>,
      <<"x.c:4: ", prompts[2]>> }

MaxLines == 2

\* err.Error() split at newlines.
DoErrors == UNION { [1..n -> DoLines] : n \in 1..MaxLines }

\* Programs a successful parse may return.
DoPrograms ==
    << RnProgram("f", "g", FALSE, "m", "n", {}, "S", "T", 1, "E",
                 [dir |-> "", base |-> <<"x", "c">>]),
       RnProgram("type", "f", FALSE, "f", "go", {"Static"}, "", "T", 3, "f",
                 [dir |-> "", base |-> <<"x", "c">>]) >>

DoInit ==
    /\ doPc = "parse"
    /\ doTypes = <<>>
    /\ doHave = {}
    /\ doProg = 0
    /\ doNRules \in 0..MaxRules
    /\ doDecls = <<>>
    /\ doMoveArg = <<>>
    /\ doBuf = NilBuf
    /\ doTrace = <<>>

\* main.go:106-110: cc.Read returns a program; break.
DoParseOk ==
    /\ doPc = "parse"
    /\ doProg' \in DOMAIN DoPrograms
    /\ doTrace' = Append(doTrace, "parseLoop")
    /\ doPc' = "rewriteSyntax"
    /\ UNCHANGED <<doTypes, doHave, doNRules, doDecls, doMoveArg, doBuf>>
    /\ UNCHANGED doOthers

\* main.go:106-139: cc.Read returns an error that names a new word; the
\* loop goes round again.
DoParseRetryErr(err) ==
    /\ doPc = "parse"
    /\ LET st == scanErr([have |-> doHave, types |-> doTypes], err, 1)
       IN  /\ Cardinality(st.have) # Cardinality(doHave)
           /\ doHave' = st.have
           /\ doTypes' = st.types
    /\ UNCHANGED <<doPc, doProg, doNRules, doDecls, doMoveArg, doBuf, doTrace>>
    /\ UNCHANGED doOthers

DoParseRetry == \E err \in DoErrors : DoParseRetryErr(err)

\* main.go:106-139: cc.Read returns an error that names no new word;
\* log.Fatal(err).
DoParseFatal ==
    /\ doPc = "parse"
    /\ \E err \in DoErrors :
          LET st == scanErr([have |-> doHave, types |-> doTypes], err, 1)
          IN  /\ Cardinality(st.have) = Cardinality(doHave)
              /\ doHave' = st.have
              /\ doTypes' = st.types
    /\ doPc' = "fatal"
    /\ UNCHANGED <<doProg, doNRules, doDecls, doMoveArg, doBuf, doTrace>>
    /\ UNCHANGED doOthers

\* main.go:142
DoRewriteSyntax ==
    /\ doPc = "rewriteSyntax"
    /\ doTrace' = Append(doTrace, "rewriteSyntax")
    /\ doPc' = "simplifyBool"
    /\ UNCHANGED <<doTypes, doHave, doProg, doNRules, doDecls, doMoveArg, doBuf>>
    /\ UNCHANGED doOthers

\* main.go:143
DoSimplifyBool ==
    /\ doPc = "simplifyBool"
    /\ doTrace' = Append(doTrace, "simplifyBool")
    /\ doPc' = "renameDecls"
    /\ UNCHANGED <<doTypes, doHave, doProg, doNRules, doDecls, doMoveArg, doBuf>>
    /\ UNCHANGED doOthers

\* main.go:144  decls := renameDecls(prog)
DoRenameDecls ==
    /\ doPc = "renameDecls"
    /\ doDecls' = renameDecls(DoPrograms[doProg].decl, DoPrograms[doProg].type,
                               RnProgDecls).out
    /\ doTrace' = Append(doTrace, "renameDecls")
    /\ doPc' = "moveDecls"
    /\ UNCHANGED <<doTypes, doHave, doProg, doNRules, doMoveArg, doBuf>>
    /\ UNCHANGED doOthers

\* moveDecls called with prog.Decls instead of decls.
DoMoveDecls_progDecls ==
    /\ doPc = "moveDecls"
    /\ doMoveArg' = RnProgDecls
    /\ doTrace' = Append(doTrace, "moveDecls")
    /\ doPc' = "emit"
    /\ UNCHANGED <<doTypes, doHave, doProg, doNRules, doDecls, doBuf>>
    /\ UNCHANGED doOthers

\* main.go:145  moveDecls(decls)
DoMoveDecls ==
    /\ doPc = "moveDecls"
    /\ doMoveArg' = doDecls
    /\ doTrace' = Append(doTrace, "moveDecls")
    /\ doPc' = "emit"
    /\ UNCHANGED <<doTypes, doHave, doProg, doNRules, doDecls, doBuf>>
    /\ UNCHANGED doOthers

\* main.go:150-194: the printer writes the program; then the test of
\* len(rules).
DoEmit ==
    /\ doPc = "emit"
    /\ doBuf' = [text |-> "emitted", formatted |-> FALSE]
    /\ doTrace' = Append(doTrace, "emit")
    /\ doPc' = IF doNRules > 0 THEN "goParse" ELSE "formatSource"
    /\ UNCHANGED <<doTypes, doHave, doProg, doNRules, doDecls, doMoveArg>>
    /\ UNCHANGED doOthers

\* main.go:196-200: parser.ParseFile fails; return buf.
DoGoParseFail ==
    /\ doPc = "goParse"
    /\ doPc' = "returned"
    /\ UNCHANGED <<doTypes, doHave, doProg, doNRules, doDecls, doMoveArg, doBuf, doTrace>>
    /\ UNCHANGED doOthers

\* main.go:196-201: parser.ParseFile succeeds; f = rewriteFile(fset, f, rules).
DoRewriteFile ==
    /\ doPc = "goParse"
    /\ doTrace' = Append(doTrace, "patternRewrite")
    /\ doPc' = "formatNode"
    /\ UNCHANGED <<doTypes, doHave, doProg, doNRules, doDecls, doMoveArg, doBuf>>
    /\ UNCHANGED doOthers

\* main.go:202-206: format.Node prints the rewritten tree, or fails and
\* log.Fatalf ends the program.
DoFormatNode ==
    /\ doPc = "formatNode"
    /\ \/ /\ doBuf' = [text |-> "rewritten", formatted |-> TRUE]
          /\ doTrace' = Append(doTrace, "formatNode")
          /\ doPc' = "formatSource"
       \/ /\ doPc' = "fatal"
          /\ UNCHANGED <<doBuf, doTrace>>
    /\ UNCHANGED <<doTypes, doHave, doProg, doNRules, doDecls, doMoveArg>>
    /\ UNCHANGED doOthers

\* format.Source as it would be if its failure ended the program.
DoFormatSource_fatal ==
    /\ doPc = "formatSource"
    /\ \/ /\ doBuf' = [doBuf EXCEPT !.formatted = TRUE]
          /\ doTrace' = Append(doTrace, "reformat")
          /\ doPc' = "returned"
       \/ /\ doPc' = "fatal"
          /\ UNCHANGED <<doBuf, doTrace>>
    /\ UNCHANGED <<doTypes, doHave, doProg, doNRules, doDecls, doMoveArg>>
    /\ UNCHANGED doOthers

\* main.go:209-212: format.Source; its failure leaves buf as it was.
DoFormatSource ==
    /\ doPc = "formatSource"
    /\ \E ok \in BOOLEAN :
          doBuf' = IF ok THEN [doBuf EXCEPT !.formatted = TRUE] ELSE doBuf
    /\ doTrace' = Append(doTrace, "reformat")
    /\ doPc' = "returned"
    /\ UNCHANGED <<doTypes, doHave, doProg, doNRules, doDecls, doMoveArg>>
    /\ UNCHANGED doOthers

\* One turn of the loop of main.go:105-140.
DoParse == DoParseOk \/ DoParseRetry \/ DoParseFatal

DoNext ==
    \/ DoParseOk \/ DoParseRetry \/ DoParseFatal
    \/ DoRewriteSyntax \/ DoSimplifyBool \/ DoRenameDecls \/ DoMoveDecls
    \/ DoEmit \/ DoGoParseFail \/ DoRewriteFile \/ DoFormatNode
    \/ DoFormatSource

(***************************************************************************)
(* Claims about do and writeGo.                                            *)
(***************************************************************************)
DoCStages ==
    <<"parseLoop", "rewriteSyntax", "simplifyBool", "renameDecls",
      "moveDecls", "emit">>

IsStage(s) == s # "formatNode"

IsPrefix(a, b) == Len(a) <= Len(b) /\ SubSeq(b, 1, Len(a)) = a

NoDup(q) == \A i, j \in DOMAIN q : i # j => q[i] # q[j]

\* C1 as the claim states it: whenever do returns, the eight stages have run
\* once each in the order parse loop, rewriteSyntax, simplifyBool,
\* renameDecls, moveDecls, emission, pattern rewriting, reformatting, and
\* moveDecls got the list renameDecls returned.
C1_Original ==
    doPc = "returned" =>
        /\ SelectSeq(doTrace, IsStage) = DoCStages \o <<"patternRewrite", "reformat">>
        /\ doMoveArg = doDecls

\* C1 amended: the stages that have run are at every moment a prefix of the
\* stage order; when do returns, the six C-tree stages have run once each
\* in order and moveDecls got the list renameDecls returned; pattern
\* rewriting (followed by format.Node) has run exactly when the rule list is
\* non-empty and the emitted text parsed as Go; reformatting has run last,
\* except that with rules and emitted text that does not parse as Go do
\* returns the emitted text with neither rewriting nor reformatting.
C1_StagesInOrder ==
    /\ doPc # "off" =>
          IsPrefix(doTrace, DoCStages \o
                     (IF doNRules > 0 THEN <<"patternRewrite", "formatNode">> ELSE <<>>)
                     \o <<"reformat">>)
    /\ doPc \in {"emit", "goParse", "formatNode", "formatSource", "returned"} =>
          doMoveArg = doDecls
    /\ doPc = "returned" =>
          \/ doNRules = 0 /\ doTrace = DoCStages \o <<"reformat">>
          \/ /\ doNRules > 0
             /\ doTrace = DoCStages \o <<"patternRewrite", "formatNode", "reformat">>
          \/ /\ doNRules > 0 /\ doTrace = DoCStages
             /\ doBuf = [text |-> "emitted", formatted |-> FALSE]

\* C1 witness: do has returned after pattern rewriting and reformatting,
\* moveDecls having got a list that is not prog.Decls.
C1_Witness ==
    /\ doPc = "returned"
    /\ doTrace = DoCStages \o <<"patternRewrite", "formatNode", "reformat">>
    /\ doMoveArg = doDecls /\ doDecls # RnProgDecls

\* C15 as the claim states it: no formatting step of writeGo, format.Node
\* after the pattern rewrites or format.Source, ends the program.
C15_Original ==
    [][(doPc = "formatNode" \/ doPc = "formatSource") => (doPc' # "fatal")]_vars

\* C15 amended: format.Source never ends the program: writeGo returns after
\* it, with the text formatted or, when it failed, with the text it had;
\* format.Node after the pattern rewrites either gives the rewritten text,
\* formatted, or ends the program, and then writeGo returns nothing.
C15_OnlyFormatSourceIsNotFatal ==
    /\ [][doPc = "formatSource" =>
            /\ doPc' = "returned"
            /\ doBuf' \in {doBuf, [doBuf EXCEPT !.formatted = TRUE]}]_vars
    /\ [][doPc = "formatNode" =>
            \/ /\ doPc' = "formatSource"
               /\ doBuf' = [text |-> "rewritten", formatted |-> TRUE]
            \/ (doPc' = "fatal" /\ doBuf' = doBuf)]_vars
    /\ [][doPc = "fatal" => (doPc' = "fatal")]_vars

\* C15 witness: format.Node failed after the pattern rewrites and the
\* program ended there, before format.Source.
C15_Witness ==
    /\ doPc = "fatal"
    /\ doNRules > 0
    /\ doTrace = DoCStages \o <<"patternRewrite">>
    /\ doBuf = [text |-> "emitted", formatted |-> FALSE]

\* C2: the parse loop ends, and ends only by a successful parse or by a
\* fatal error in an iteration that added no type name; every iteration
\* that does not end the loop hands a strictly longer, duplicate-free list
\* of type names, extending the previous one, to the next parse.
C2_ParseLoopTerminates ==
    /\ <>(doPc # "parse")
    /\ [][doPc = "parse" /\ doPc' # "parse" =>
            \/ doPc' = "rewriteSyntax" /\ doProg' # 0
            \/ doPc' = "fatal" /\ doTypes' = doTypes /\ doHave' = doHave]_vars
    /\ [][doPc = "parse" /\ doPc' = "parse" =>
            /\ Len(doTypes') > Len(doTypes)
            /\ IsPrefix(doTypes, doTypes')
            /\ NoDup(doTypes')
            /\ doHave' = {doTypes'[i] : i \in DOMAIN doTypes'}]_vars

\* C2 witness: the loop has ended by a successful parse after iterations
\* that named three type words in all.
C2_Witness ==
    /\ doPc = "rewriteSyntax"
    /\ doProg # 0
    /\ Len(doTypes) >= 3

\* the prompts that occur in a line
C21_Occurring(line) == { k \in DOMAIN prompts : Index(line, prompts[k]) > 0 }

\* the text that follows the first occurrence of prompt k in the line
C21_WordOf(line, k) == wordAfter(line, Index(line, prompts[k]))

\* C21 as stated: after a failed parse that is followed by another parse,
\* the text following every prompt that occurs in a line of the diagnostic
\* is a presumed type name.
C21_Original ==
    [][\A err \in DoErrors :
          DoParseRetryErr(err) =>
              (\A i \in DOMAIN err : \A k \in C21_Occurring(err[i]) :
                   C21_WordOf(err[i], k) \in doHave')]_vars

\* C21: after a failed parse that is followed by another parse, for every
\* line of the diagnostic in which a prompt occurs, the text following the
\* first occurrence of the prompt that comes first in the list (syntax error
\* near, invalid function definition for, likely type near) is a presumed
\* type name and is in the list handed to the next parse; nothing but these
\* texts is added.
C21_FirstPromptWordAdded ==
    [][\A err \in DoErrors :
          DoParseRetryErr(err) =>
              LET first(line) == CHOOSE k \in C21_Occurring(line) :
                                    \A j \in C21_Occurring(line) : k <= j
                  words == { C21_WordOf(err[i], first(err[i])) :
                               i \in { n \in DOMAIN err : C21_Occurring(err[n]) # {} } }
              IN  /\ doHave' = doHave \cup words
                  /\ words \subseteq { doTypes'[n] : n \in DOMAIN doTypes' }]_vars

\* C21 witness: the line "syntax error near likely type near V" was scanned:
\* the text after its first prompt is a type name, the text after its other
\* prompt is not.
C21_Witness ==
    /\ doPc = "parse"
    /\ <<prompts[3], "V">> \in doHave
    /\ <<"V">> \notin doHave


(***************************************************************************)
(* moveDecls (decls.go): pushing declarations forward to their first use.  *)
(***************************************************************************)
If(cond, body, els) == [MkS("If") EXCEPT !.expr = cond, !.body = body, !.els = els]
For(pre, cond, post, body) ==
    [MkS("For") EXCEPT !.pre = pre, !.expr = cond, !.post = post, !.body = body]
BlockNoBrace(list) == [MkS("BlockNoBrace") EXCEPT !.block = list]

\* The declarations of the program: three locals x, y and z, z with an
\* initializer, the function f they belong to and a global g.
MdDecls ==
    << MkDecl("x", {}, 1, NilS),
       MkDecl("y", {}, 1, NilS),
       [MkDecl("z", {}, 1, NilS) EXCEPT !.init = Number("3")],
       MkDecl("f", {}, 2, Block(<<>>)),
       MkDecl("g", {}, 1, NilS) >>

MdTypes == << MkType("Int", "", <<>>), MkType("Func", "", <<>>) >>

\* moveDecls' argument progDecls
MdProgDecls == <<5, 4>>

\* decls.go:36-41: inlineBlockNoBrace on every statement, children first.
RECURSIVE inlineAllE(_), inlineAllS(_)
inlineAllE(x) ==
    IF x.op = "nil" THEN x
    ELSE [x EXCEPT !.left = inlineAllE(x.left),
                   !.right = inlineAllE(x.right),
                   !.list = [i \in DOMAIN x.list |-> inlineAllE(x.list[i])],
                   !.block = [i \in DOMAIN x.block |-> inlineAllS(x.block[i])],
                   !.after = [i \in DOMAIN x.after |-> inlineAllS(x.after[i])]]
inlineAllS(x) ==
    IF x.op = "nil" THEN x
    ELSE inlineBlockNoBrace(
            [x EXCEPT !.pre = inlineAllE(x.pre),
                      !.expr = inlineAllE(x.expr),
                      !.post = inlineAllE(x.post),
                      !.body = inlineAllS(x.body),
                      !.els = inlineAllS(x.els),
                      !.block = [i \in DOMAIN x.block |-> inlineAllS(x.block[i])]])

\* decls.go:62-97: the uses map.  An entry {x, v} is set when x is a Name of
\* v or when one of the children copyUses names has the entry.
RECURSIVE refsE(_, _), refsS(_, _)
refsE(x, v) ==
    IF x.op = "nil" THEN FALSE
    ELSE \/ x.op = "Name" /\ x.xdecl # 0 /\ x.xdecl = v
         \/ refsE(x.left, v) \/ refsE(x.right, v)
         \/ \E i \in DOMAIN x.list : refsE(x.list[i], v)
         \/ \E i \in DOMAIN x.block : refsS(x.block[i], v)
         \/ \E i \in DOMAIN x.after : refsS(x.after[i], v)
refsS(x, v) ==
    IF x.op = "nil" THEN FALSE
    ELSE \/ refsE(x.pre, v) \/ refsE(x.expr, v) \/ refsE(x.post, v)
         \/ refsS(x.body, v) \/ refsS(x.els, v)
         \/ \E i \in DOMAIN x.block : refsS(x.block[i], v)
         \/ x.decl # 0 /\ refsE(MdDecls[x.decl].init, v)

\* uses[usesVar{x, v}] for a statement x: a statement made after the map
\* was filled has no entry.
uses(x, v) == x.op # "nil" /\ ~x.fresh /\ refsS(x, v)

\* decls.go:99-106
anyUses(list, v) == \E i \in DOMAIN list : uses(list[i], v)

\* A variant that makes the new Block of the declaration alone.
addToBlock_alone(x, decl) ==
    IF x.op \in {"Block", "BlockNoBrace"}
    THEN [x EXCEPT !.block = <<decl>> \o x.block]
    ELSE [MkS("Block") EXCEPT !.block = <<decl>>, !.fresh = TRUE]

\* decls.go:108-117
addToBlock(x, decl) ==
    IF x.op \in {"Block", "BlockNoBrace"}
    THEN [x EXCEPT !.block = <<decl>> \o x.block]
    ELSE [MkS("Block") EXCEPT !.block = <<decl, x>>, !.fresh = TRUE]

\* decls.go:119-133; the result is the returned flag and x as it is left.
RECURSIVE addToIf(_, _)
addToIf(x, d) ==
    IF refsE(x.pre, d.decl) \/ refsE(x.expr, d.decl)
    THEN [ok |-> FALSE, x |-> x]
    ELSE LET x1 == IF uses(x.body, d.decl)
                   THEN [x EXCEPT !.body = addToBlock(x.body, d)]
                   ELSE x
             x2 == IF uses(x1.els, d.decl)
                   THEN IF x1.els.op # "If" \/ ~addToIf(x1.els, d).ok
                        THEN [x1 EXCEPT !.els = addToBlock(x1.els, d)]
                        ELSE [x1 EXCEPT !.els = addToIf(x1.els, d).x]
                   ELSE x1
         IN  [ok |-> TRUE, x |-> x2]

IsAssignTo(e, v) ==
    e.op = "Eq" /\ e.left.op = "Name" /\ e.left.xdecl = v

\* A pending declaration that keeps its place whether or not it is used.
pendOne_stay(st, d, rest) ==
    [st EXCEPT !.out = Append(st.out, d)]

\* decls.go:144-177, one pending declaration d met at statement st.stmt;
\* rest is x.Block[i+1:].
pendOne(st, d, rest) ==
    LET stmt == st.stmt
    IN  IF ~uses(stmt, d.decl)
        THEN [st EXCEPT !.pendout = Append(st.pendout, d)]
        ELSE IF stmt.op = "StmtExpr" /\ IsAssignTo(stmt.expr, d.decl)
        THEN [st EXCEPT !.stmt.expr.op = "ColonEq"]
        ELSE IF ~anyUses(rest, d.decl) /\ stmt.op = "If" /\ addToIf(stmt, d).ok
        THEN [st EXCEPT !.stmt = addToIf(stmt, d).x]
        ELSE IF ~anyUses(rest, d.decl) /\ stmt.op = "Block"
        THEN [st EXCEPT !.stmt = addToBlock(stmt, d)]
        ELSE IF /\ ~anyUses(rest, d.decl) /\ stmt.op = "For"
                /\ ~refsE(stmt.pre, d.decl) /\ ~refsE(stmt.expr, d.decl)
                /\ ~refsE(stmt.post, d.decl)
        THEN [st EXCEPT !.stmt.body = addToBlock(stmt.body, d)]
        ELSE IF /\ ~anyUses(rest, d.decl) /\ stmt.op = "For"
                /\ stmt.pre.op # "nil" /\ IsAssignTo(stmt.pre, d.decl)
        THEN [st EXCEPT !.stmt.pre.op = "ColonEq"]
        ELSE [st EXCEPT !.out = Append(st.out, d)]

\* decls.go:143-178
RECURSIVE pendLoop(_, _, _, _)
pendLoop(st, pending, rest, k) ==
    IF k > Len(pending) THEN st
    ELSE pendLoop(pendOne(st, pending[k], rest), pending, rest, k + 1)

\* decls.go:139-196, the loop over x.Block from index i on.
RECURSIVE moveList(_, _, _, _)
moveList(block, i, out, pending) ==
    IF i > Len(block) THEN out
    ELSE LET st == pendLoop([stmt |-> block[i], out |-> out, pendout |-> <<>>],
                            pending, SubSeq(block, i + 1, Len(block)), 1)
         IN  IF st.stmt.op = "StmtDecl" /\ MdDecls[st.stmt.decl].init.op = "nil"
             THEN moveList(block, i + 1, st.out, Append(st.pendout, st.stmt))
             ELSE moveList(block, i + 1, Append(st.out, st.stmt), st.pendout)

\* decls.go:135-199: the callback on x, then on what x holds after it.
RECURSIVE moveE(_), moveS(_)
moveE(x) ==
    IF x.op = "nil" THEN x
    ELSE [x EXCEPT !.left = moveE(x.left),
                   !.right = moveE(x.right),
                   !.list = [i \in DOMAIN x.list |-> moveE(x.list[i])],
                   !.block = [i \in DOMAIN x.block |-> moveS(x.block[i])],
                   !.after = [i \in DOMAIN x.after |-> moveS(x.after[i])]]
moveS(x) ==
    IF x.op = "nil" THEN x
    ELSE LET x1 == IF x.op \in {"Block", "BlockNoBrace"}
                   THEN [x EXCEPT !.block = moveList(x.block, 1, <<>>, <<>>)]
                   ELSE x
         IN  [x1 EXCEPT !.pre = moveE(x1.pre),
                        !.expr = moveE(x1.expr),
                        !.post = moveE(x1.post),
                        !.body = moveS(x1.body),
                        !.els = moveS(x1.els),
                        !.block = [i \in DOMAIN x1.block |-> moveS(x1.block[i])]]

\* Statements of a function body that use the locals.
Var(v) == Name(MdDecls[v].name, v)
Assign(v, e) == StmtExpr(Binary("Eq", Var(v), e))
CallOn(v) == StmtExpr(Listed("Call", Name("g", 5), <<Var(v)>>))
Cond == Name("g", 5)

MdStmts ==
    { Assign(1, Number("1")),
      Assign(2, Var(1)),
      CallOn(1),
      CallOn(3),
      If(Cond, Assign(1, Number("1")), NilS),
      If(Cond, StmtExpr(Binary("Eq", Var(1), Binary("Eq", Var(2), Number("1")))), NilS),
      If(Var(1), Block(<<CallOn(2)>>), NilS),
      If(Cond, Block(<<CallOn(1)>>), If(Cond, CallOn(1), CallOn(2))),
      For(Binary("Eq", Var(1), Number("0")), Cond, NilE, CallOn(1)),
      For(NilE, Cond, NilE, Block(<<Assign(1, Number("1")), CallOn(1)>>)),
      Block(<<CallOn(1), CallOn(2)>>),
      BlockNoBrace(<<Assign(1, Number("1")), If(Var(1), CallOn(2), NilS)>>) }

MaxStmts == 2

\* The locals a body declares, at its start as is the custom in C.
MdDeclared == { <<>>, <<1>>, <<3>>, <<1, 2>>, <<1, 3>>, <<1, 2, 3>> }

\* A body declares the locals it uses.
MdBodies ==
    { Block([i \in DOMAIN ds |-> StmtDecl(ds[i])] \o ss) :
        <<ds, ss>> \in { p \in MdDeclared \X UNION { [1..n -> MdStmts] : n \in 0..MaxStmts } :
                            \A v \in 1..3 :
                                (\E i \in DOMAIN p[2] : refsS(p[2][i], v))
                                    => \E i \in DOMAIN p[1] : p[1][i] = v } }

MdInit ==
    /\ mdPc = "range"
    /\ mdI = 1
    /\ mdIn \in MdBodies
    /\ mdBody = mdIn

MdIsFunc(d) ==
    /\ MdDecls[d].type # 0 /\ MdTypes[MdDecls[d].type].kind = "Func"
    /\ MdDecls[d].body.op # "nil"

\* decls.go:10-11: a declaration that is not a function with a body.
MdSkip ==
    /\ mdPc = "range"
    /\ mdI <= Len(MdProgDecls)
    /\ ~MdIsFunc(MdProgDecls[mdI])
    /\ mdI' = mdI + 1
    /\ UNCHANGED <<mdPc, mdIn, mdBody>>
    /\ UNCHANGED mdOthers

\* decls.go:11-12 and 36-41: moveFuncDecls begins by inlining.
MdInline ==
    /\ mdPc = "range"
    /\ mdI <= Len(MdProgDecls)
    /\ MdIsFunc(MdProgDecls[mdI])
    /\ mdBody' = inlineAllS(mdBody)
    /\ mdPc' = "move"
    /\ UNCHANGED <<mdI, mdIn>>
    /\ UNCHANGED mdOthers

\* decls.go:43-199: the uses map is filled and the declarations move.
MdMove ==
    /\ mdPc = "move"
    /\ mdBody' = moveS(mdBody)
    /\ mdPc' = "range"
    /\ mdI' = mdI + 1
    /\ UNCHANGED mdIn
    /\ UNCHANGED mdOthers

\* decls.go:14-15
MdReturn ==
    /\ mdPc = "range"
    /\ mdI > Len(MdProgDecls)
    /\ mdPc' = "done"
    /\ UNCHANGED <<mdI, mdIn, mdBody>>
    /\ UNCHANGED mdOthers

MdNext == MdSkip \/ MdInline \/ MdMove \/ MdReturn

(***************************************************************************)
(* Claims about moveDecls.                                                 *)
(***************************************************************************)
\* The statement lists of all blocks under an expression or a statement.
RECURSIVE BlocksE(_), BlocksS(_)
BlocksE(x) ==
    IF x.op = "nil" THEN {}
    ELSE BlocksE(x.left) \cup BlocksE(x.right)
         \cup UNION { BlocksE(x.list[i]) : i \in DOMAIN x.list }
         \cup UNION { BlocksS(x.block[i]) : i \in DOMAIN x.block }
         \cup UNION { BlocksS(x.after[i]) : i \in DOMAIN x.after }
BlocksS(x) ==
    IF x.op = "nil" THEN {}
    ELSE (IF x.block # <<>> THEN {x.block} ELSE {})
         \cup BlocksE(x.pre) \cup BlocksE(x.expr) \cup BlocksE(x.post)
         \cup BlocksS(x.body) \cup BlocksS(x.els)
         \cup UNION { BlocksS(x.block[i]) : i \in DOMAIN x.block }

\* The declaration statement at position i of the block is followed in the
\* block by a statement that refers to it and preceded by none.
MdPlaced(block, i) ==
    /\ \E j \in DOMAIN block : j > i /\ refsS(block[j], block[i].decl)
    /\ \A j \in DOMAIN block : j < i => ~refsS(block[j], block[i].decl)

\* C5 as the claim states it: after moveDecls every StmtDecl that remains
\* in the function body is followed in its block by a statement that refers
\* to the declaration and preceded by none.
C5_Original ==
    mdPc = "done" =>
        \A block \in BlocksS(mdBody) : \A i \in DOMAIN block :
            block[i].op = "StmtDecl" => MdPlaced(block, i)

\* C5 amended: after moveDecls every StmtDecl without an initializer that
\* remains in the function body is followed in its block by a statement
\* that refers to the declaration and preceded by none; a StmtDecl with an
\* initializer stays where it was written.
C5_UninitializedPlaced ==
    mdPc = "done" =>
        /\ \A block \in BlocksS(mdBody) : \A i \in DOMAIN block :
              (block[i].op = "StmtDecl" /\ MdDecls[block[i].decl].init.op = "nil")
                  => MdPlaced(block, i)
        /\ \A i \in DOMAIN mdIn.block :
              (mdIn.block[i].op = "StmtDecl" /\ MdDecls[mdIn.block[i].decl].init.op # "nil")
                  => \E j \in DOMAIN mdBody.block : mdBody.block[j] = mdIn.block[i]

\* C5 witness: a declaration without initializer has moved into a nested
\* block, where a statement that uses it follows.
C5_Witness ==
    /\ mdPc = "done"
    /\ \E block \in BlocksS(mdBody) : \E i \in DOMAIN block :
          /\ block # mdBody.block
          /\ block[i].op = "StmtDecl" /\ MdDecls[block[i].decl].init.op = "nil"
          /\ MdPlaced(block, i)

\* the statement declares v by an assignment that was converted to :=
C28_Defines(x, v) ==
    x.op = "StmtExpr" /\ x.expr.op = "ColonEq" /\ x.expr.left.op = "Name" /\ x.expr.left.xdecl = v

\* Every reference to v under the statement x is in the scope of a
\* declaration of v: in is whether x itself is, by a StmtDecl of v or a :=
\* of v earlier in its block or in an enclosing block, or in the init
\* clause of an enclosing for.
RECURSIVE C28_ScopedS(_, _, _), C28_ScopedList(_, _, _, _)
C28_ScopedS(x, v, in) ==
    IF x.op = "nil" THEN TRUE
    ELSE IF x.op \in {"Block", "BlockNoBrace"} THEN C28_ScopedList(x.block, 1, v, in)
    ELSE \A here \in {in \/ C28_Defines(x, v)
                         \/ (x.op = "For" /\ x.pre.op = "ColonEq"
                             /\ x.pre.left.op = "Name" /\ x.pre.left.xdecl = v)} :
            /\ (refsE(x.pre, v) \/ refsE(x.expr, v) \/ refsE(x.post, v)) => here
            /\ C28_ScopedS(x.body, v, here)
            /\ C28_ScopedS(x.els, v, here)
C28_ScopedList(block, i, v, in) ==
    IF i > Len(block) THEN TRUE
    ELSE /\ C28_ScopedS(block[i], v, in)
         /\ C28_ScopedList(block, i + 1, v,
                           in \/ (block[i].op = "StmtDecl" /\ block[i].decl = v)
                              \/ C28_Defines(block[i], v))

\* the locals the body declares without an initializer
C28_Locals ==
    { v \in DOMAIN MdDecls :
        /\ MdDecls[v].init.op = "nil"
        /\ \E i \in DOMAIN mdIn.block : mdIn.block[i].op = "StmtDecl" /\ mdIn.block[i].decl = v }

C29_Uninit(v) == v # 0 /\ MdDecls[v].init.op = "nil"

C29_Undeclare(e) ==
    IF e.op = "ColonEq" /\ e.left.op = "Name" /\ C29_Uninit(e.left.xdecl)
    THEN [e EXCEPT !.op = "Eq"]
    ELSE e

RECURSIVE C29_Strip(_), C29_StripList(_, _)
C29_Strip(x) ==
    IF x.op = "nil" THEN x
    ELSE IF x.op = "Block" /\ x.fresh /\ Len(C29_StripList(x.block, 1)) = 1
         THEN C29_StripList(x.block, 1)[1]
    ELSE [x EXCEPT !.pre = IF x.op = "For" THEN C29_Undeclare(x.pre) ELSE x.pre,
                   !.expr = IF x.op = "StmtExpr" THEN C29_Undeclare(x.expr)
                            ELSE x.expr,
                   !.body = C29_Strip(x.body),
                   !.els = C29_Strip(x.els),
                   !.block = C29_StripList(x.block, 1),
                   !.fresh = FALSE]
C29_StripList(block, i) ==
    IF i > Len(block) THEN <<>>
    ELSE IF block[i].op = "StmtDecl" /\ C29_Uninit(block[i].decl)
         THEN C29_StripList(block, i + 1)
    ELSE IF block[i].op = "BlockNoBrace"
         THEN <<[block[i] EXCEPT !.op = "Empty", !.block = <<>>]>>
              \o C29_StripList(block[i].block, 1)
              \o C29_StripList(block, i + 1)
    ELSE <<C29_Strip(block[i])>> \o C29_StripList(block, i + 1)

AssignOps ==
    {"Eq", "AddEq", "SubEq", "MulEq", "DivEq", "ModEq", "XorEq", "OrEq",
     "AndEq", "LshEq", "RshEq"}

Digits == <<"0", "1", "2", "3", "4", "5", "6", "7", "8", "9">>

\* fmt.Sprintf("%d", n)
RECURSIVE itoa(_)
itoa(n) == IF n < 10 THEN Digits[n + 1] ELSE itoa(n \div 10) \o Digits[(n % 10) + 1]

\* fmt.Sprintf("tmp%d", n)
tmpName(n) == "tmp" \o itoa(n)

\* The identity of the declaration made for the n-th temporary.
tmpDecl(n) == 100 + n

copyExpr(x) == x

copyStmt(x) == [x EXCEPT !.labels = <<>>]

\* *dst = *src; comments are not part of the model.
fixMerge(dst, src) == src

forceCheap(x) == x

forceBlock(x) == IF x.op # "Block" THEN Block(<<x>>) ELSE x

Not(x) == Unary("Not", x)

\* F applied to v: v is what a local variable of the code holds.
With(v, F(_)) == F(v)

\* Expression as statement (part_005:573-590): the operators left alone.
StmtLegal == {"PostInc", "PostDec", "Call"} \cup AssignOps

\* part_005:592-678: the side effect of x itself, children done.
sideLift(x, mode, st) ==
    CASE x.op \in AssignOps ->
            [x |-> fixMerge(x, forceCheap(x.left)),
             st |-> [st EXCEPT !.before = Append(@, StmtExpr(copyExpr(x)))]]
      [] x.op \in {"PreInc", "PreDec"} ->
            [x |-> fixMerge(x, forceCheap(x.left)),
             st |-> [st EXCEPT !.before = Append(@,
                        StmtExpr([copyExpr(x) EXCEPT
                            !.op = IF x.op = "PreInc" THEN "PostInc" ELSE "PostDec"]))]]
      [] x.op \in {"PostInc", "PostDec"} /\ "sideNoAfter" \in mode ->
            LET n == st.g.gen
                tmp == Name(tmpName(n), tmpDecl(n))
            IN  [x |-> [x EXCEPT !.op = "Name", !.text = tmpName(n),
                                 !.xdecl = tmpDecl(n), !.left = NilE],
                 st |-> [st EXCEPT
                            !.g.gen = n + 1,
                            !.g.tmpType = @ @@ (tmpDecl(n) :> x.left.xtype),
                            !.before = @ \o
                                << StmtExpr(Binary("ColonEq", tmp, forceCheap(x.left))),
                                   StmtExpr(Unary(x.op, copyExpr(forceCheap(x.left)))) >>]]
      [] x.op \in {"PostInc", "PostDec"} /\ "sideNoAfter" \notin mode ->
            [x |-> fixMerge(x, forceCheap(x.left)),
             st |-> [st EXCEPT !.after = Append(@, StmtExpr(copyExpr(x)))]]
      [] x.op = "Cond" ->
            LET n == st.g.gen
                tmp == Name(tmpName(n), tmpDecl(n))
            IN  [x |-> [x EXCEPT !.op = "Name", !.text = tmpName(n),
                                 !.xdecl = tmpDecl(n), !.list = <<>>],
                 st |-> [st EXCEPT
                            !.g.gen = n + 1,
                            !.g.tmpType = @ @@ (tmpDecl(n) :> x.xtype),
                            !.before = @ \o
                                << StmtDecl(tmpDecl(n)),
                                   [MkS("If") EXCEPT
                                       !.expr = x.list[1],
                                       !.body = StmtExpr(Binary("Eq", tmp, x.list[2])),
                                       !.els = StmtExpr(Binary("Eq", tmp, x.list[3]))] >>]]
      [] OTHER -> [x |-> x, st |-> st]

\* Empty before and after lists; g is what outlives the call: the next
\* number of tmpGen (gen), the types of the temporaries declared so far
\* (tmpType) and the initializers of the declarations (init).
NoStmts(g) == [before |-> <<>>, after |-> <<>>, g |-> g]

RECURSIVE doSideEffects(_, _, _), doSideList(_, _, _, _), doSideComma(_, _, _, _, _),
          checkNoSideEffects(_, _, _, _), sideChildren(_, _, _),
          doSideList_after(_, _, _, _), doSideComma_all(_, _, _, _, _)

\* part_005:530-679; the result is x as the call leaves it and, in st, what
\* the call wrote: *before, *after and the temporaries it declared.
doSideEffects(x, mode, st) ==
    IF x.op = "nil" THEN [x |-> x, st |-> st]
    ELSE With(sideChildren(x, mode, st), LAMBDA r :
             IF "sideStmt" \in mode /\ r.x.op = "PreInc"
             THEN [r EXCEPT !.x.op = "PostInc"]
             ELSE IF "sideStmt" \in mode /\ r.x.op = "PreDec"
             THEN [r EXCEPT !.x.op = "PostDec"]
             ELSE IF "sideStmt" \in mode /\ r.x.op \in StmtLegal
             THEN r
             ELSE sideLift(r.x, mode, r.st))

\* part_005:538-571: the children of x.
sideChildren(x, mode, st) ==
    CASE x.op = "Cond" ->
            With(doSideEffects(x.list[1], (mode \ {"sideStmt"}) \cup {"sideNoAfter"}, st),
                 LAMBDA c :
            With(checkNoSideEffects(x.list[2], {}, "unknown", c.st.g), LAMBDA y :
            With(checkNoSideEffects(x.list[3], {}, "unknown", y.g), LAMBDA z :
                [x |-> [x EXCEPT !.list = <<c.x, y.x, z.x>>],
                 st |-> [c.st EXCEPT !.g = z.g]])))
      [] x.op \in {"AndAnd", "OrOr"} ->
            With(doSideEffects(x.left, (mode \ {"sideStmt"}) \cup {"sideNoAfter"}, st),
                 LAMBDA l :
            With(checkNoSideEffects(x.right, {}, "bool", l.st.g), LAMBDA r :
                [x |-> [x EXCEPT !.left = l.x, !.right = r.x],
                 st |-> [l.st EXCEPT !.g = r.g]]))
      [] x.op = "Comma" ->
            With(doSideComma(x.list, 1, mode, st, <<>>), LAMBDA c :
                [x |-> [x EXCEPT !.list = c.leftover], st |-> c.st])
      [] OTHER ->
            With(doSideEffects(x.left, mode \ {"sideStmt"}, st), LAMBDA l :
            With(doSideEffects(x.right, mode \ {"sideStmt"}, l.st), LAMBDA r :
            With(doSideList(x.list, 1, mode \ {"sideStmt"}, r.st), LAMBDA ys :
                [x |-> [x EXCEPT !.left = l.x, !.right = r.x, !.list = ys.list],
                 st |-> ys.st])))

\* a mutant of doSideList: the elements of a list are done without sideNoAfter
doSideList_after(list, i, mode, st) ==
    IF i > Len(list) THEN [list |-> list, st |-> st]
    ELSE With(doSideEffects(list[i], mode \ {"sideNoAfter"}, st), LAMBDA r :
             doSideList_after([list EXCEPT ![i] = r.x], i + 1, mode, r.st))

\* part_005:568-570
doSideList(list, i, mode, st) ==
    IF i > Len(list) THEN [list |-> list, st |-> st]
    ELSE With(doSideEffects(list[i], mode, st), LAMBDA r :
             doSideList([list EXCEPT ![i] = r.x], i + 1, mode, r.st))

\* a mutant of doSideComma: the last element is done like the others
doSideComma_all(list, i, mode, st, leftover) ==
    IF i > Len(list) THEN [leftover |-> leftover, st |-> st]
    ELSE With(doSideEffects(list[i], mode \cup {"sideNoAfter", "sideStmt"}, st),
              LAMBDA r :
             IF r.x.op \in {"PostInc", "PostDec"} \cup AssignOps
             THEN doSideComma_all(list, i + 1, mode,
                                  [r.st EXCEPT !.before = Append(@, StmtExpr(r.x))],
                                  leftover)
             ELSE doSideComma_all(list, i + 1, mode, r.st, Append(leftover, r.x)))

\* part_005:549-563
doSideComma(list, i, mode, st, leftover) ==
    IF i > Len(list) THEN [leftover |-> leftover, st |-> st]
    ELSE With(doSideEffects(list[i],
                            mode \cup {"sideNoAfter"}
                                 \cup (IF i < Len(list) THEN {"sideStmt"} ELSE {}),
                            st),
              LAMBDA r :
             IF r.x.op \in {"PostInc", "PostDec"} \cup AssignOps
             THEN doSideComma(list, i + 1, mode,
                              [r.st EXCEPT !.before = Append(@, StmtExpr(r.x))],
                              leftover)
             ELSE doSideComma(list, i + 1, mode, r.st, Append(leftover, r.x)))

\* checkNoSideEffects as it would be if it kept the residue and dropped the
\* statements.
checkNoSideEffects_bare(x, mode, typ, g) ==
    With(doSideEffects(x, mode, NoStmts(g)), LAMBDA r : [x |-> r.x, g |-> r.st.g])

\* part_005:708-719
checkNoSideEffects(x, mode, typ, g) ==
    With(doSideEffects(x, mode, NoStmts(g)), LAMBDA r :
        IF Len(r.st.before) + Len(r.st.after) > 0
        THEN [x |-> [r.x EXCEPT !.op = "SideEffectFunc",
                                !.left = copyExpr(r.x),
                                !.block = r.st.before,
                                !.after = r.st.after,
                                !.text = typ],
              g |-> r.st.g]
        ELSE [x |-> r.x, g |-> r.st.g])

\* part_005:515-518
extractSideEffects(x, mode, g) ==
    With(doSideEffects(x, mode, NoStmts(g)), LAMBDA r :
        [x |-> r.x, before |-> r.st.before, after |-> r.st.after, g |-> r.st.g])

\* part_005:409-423
RECURSIVE splitExpr(_, _)
splitExpr(x, op) ==
    IF x.op = "nil" THEN <<>>
    ELSE IF x.op = op THEN Append(splitExpr(x.left, op), x.right)
    ELSE <<x>>

\* part_005:425-434
RECURSIVE joinExpr(_, _)
joinExpr(list, op) ==
    IF Len(list) = 0 THEN NilE
    ELSE IF Len(list) = 1 THEN list[1]
    ELSE Binary(op, joinExpr(SubSeq(list, 1, Len(list) - 1), op), list[Len(list)])

\* The tree x whose clauses, as splitExpr lists them, were changed in
\* place to the given ones.
RECURSIVE withClauses(_, _, _)
withClauses(x, op, clauses) ==
    IF x.op = "nil" THEN x
    ELSE IF x.op = op
         THEN [x EXCEPT !.left = withClauses(x.left, op, SubSeq(clauses, 1, Len(clauses) - 1)),
                        !.right = clauses[Len(clauses)]]
         ELSE clauses[1]

Break == MkS("Break")

\* part_005:385-407, the loop; acc holds clauses, stmt.Body, changed and g.
RECURSIVE ifAndAndLoop(_, _)
ifAndAndLoop(i, acc) ==
    IF i < 2 THEN acc
    ELSE With(extractSideEffects(acc.clauses[i], {"sideNoAfter"}, acc.g), LAMBDA r :
         With([acc.clauses EXCEPT ![i] = r.x], LAMBDA cl :
             IF Len(r.before) = 0
             THEN ifAndAndLoop(i - 1, [acc EXCEPT !.clauses = cl, !.g = r.g])
             ELSE ifAndAndLoop(i - 1,
                    [clauses |-> SubSeq(cl, 1, i - 1),
                     body |-> BlockNoBrace(r.before \o
                                << If(joinExpr(SubSeq(cl, i, Len(cl)), "AndAnd"),
                                      acc.body, NilS) >>),
                     changed |-> TRUE,
                     g |-> r.g])))

\* part_005:385-407
fixIfAndAnd(stmt, g) ==
    With(splitExpr(stmt.expr, "AndAnd"), LAMBDA clauses :
    With(ifAndAndLoop(Len(clauses),
             [clauses |-> clauses, body |-> stmt.body, changed |-> FALSE, g |-> g]),
         LAMBDA acc :
        [s |-> [stmt EXCEPT
                   !.body = acc.body,
                   !.expr = IF acc.changed THEN joinExpr(acc.clauses, "AndAnd")
                            ELSE withClauses(stmt.expr, "AndAnd", acc.clauses)],
         g |-> acc.g]))

\* part_005:358-382, the loop
RECURSIVE forAndAndLoop(_, _)
forAndAndLoop(i, acc) ==
    IF i < 2 THEN acc
    ELSE With(extractSideEffects(acc.clauses[i], {"sideNoAfter"}, acc.g), LAMBDA r :
         With([acc.clauses EXCEPT ![i] = r.x], LAMBDA cl :
             IF Len(r.before) = 0
             THEN forAndAndLoop(i - 1, [acc EXCEPT !.clauses = cl, !.g = r.g])
             ELSE forAndAndLoop(i - 1,
                    [clauses |-> SubSeq(cl, 1, i - 1),
                     body |-> [acc.body EXCEPT !.block =
                                << BlockNoBrace(r.before \o
                                     << If(Not(joinExpr(SubSeq(cl, i, Len(cl)), "AndAnd")),
                                           Break, NilS) >>) >> \o @],
                     changed |-> TRUE,
                     g |-> r.g])))

\* part_005:358-382
fixForAndAnd(stmt, g) ==
    With(splitExpr(stmt.expr, "AndAnd"), LAMBDA clauses :
    With(forAndAndLoop(Len(clauses),
             [clauses |-> clauses, body |-> stmt.body, changed |-> FALSE, g |-> g]),
         LAMBDA acc :
        [s |-> [stmt EXCEPT
                   !.body = acc.body,
                   !.expr = IF acc.changed THEN joinExpr(acc.clauses, "AndAnd")
                            ELSE withClauses(stmt.expr, "AndAnd", acc.clauses)],
         g |-> acc.g]))

\* part_005:203-217
rewriteDo(stmt, g) ==
    [s |-> [stmt EXCEPT
               !.op = "For",
               !.expr = NilE,
               !.body = [forceBlock(stmt.body) EXCEPT
                            !.block = Append(@, If(Not(stmt.expr), Break, NilS))]],
     g |-> g]

\* part_005:228-237
forCond(s, b2) ==
    IF Len(b2.before) > 0
    THEN [s EXCEPT
             !.expr = NilE,
             !.body = [forceBlock(s.body) EXCEPT
                          !.block = b2.before \o << If(Not(b2.x), Break, NilS) >> \o @]]
    ELSE [s EXCEPT !.expr = b2.x]

\* part_005:238-246
forPre(s, b1) ==
    IF Len(b1.before) > 0
    THEN [s EXCEPT !.pre = NilE, !.expr = NilE, !.post = NilE,
                   !.body = NilS, !.op = "BlockNoBrace",
                   !.block = b1.before \o << copyStmt(s) >>]
    ELSE s

\* part_005:247-251
forPost(s, b3) ==
    IF Len(b3.before) + Len(b3.after) > 0
    THEN [s EXCEPT !.post =
             [MkE("ExprBlock", "", NilE, NilE, <<>>) EXCEPT
                 !.block = b3.before \o << StmtExpr(b3.x) >> \o b3.after]]
    ELSE [s EXCEPT !.post = b3.x]

\* part_005:219-251
rewriteFor(stmt, g) ==
    With(fixForAndAnd([stmt EXCEPT !.op = "For"], g), LAMBDA f :
    With(extractSideEffects(f.s.pre, {"sideStmt", "sideNoAfter"}, f.g), LAMBDA b1 :
    With(extractSideEffects(f.s.expr, {"sideNoAfter"}, b1.g), LAMBDA b2 :
    With(forPre(forCond([f.s EXCEPT !.pre = b1.x], b2), b1), LAMBDA s4 :
    With(extractSideEffects(s4.post, {"sideStmt"}, b2.g), LAMBDA b3 :
        [s |-> forPost(s4, b3), g |-> b3.g])))))

\* part_005:253-267
rewriteIf(stmt, g) ==
    With(IF stmt.op = "If" /\ stmt.els.op = "nil"
         THEN fixIfAndAnd(stmt, g)
         ELSE [s |-> stmt, g |-> g], LAMBDA f :
    With(extractSideEffects(f.s.expr, {"sideNoAfter"}, f.g), LAMBDA b :
    With([f.s EXCEPT !.expr = b.x], LAMBDA s1 :
        [s |-> IF Len(b.before) > 0
               THEN [s1 EXCEPT !.expr = NilE, !.body = NilS, !.els = NilS,
                               !.op = "BlockNoBrace",
                               !.block = b.before \o << copyStmt(s1) >>]
               ELSE s1,
         g |-> b.g])))

\* part_005:269-276
rewriteStmtExpr(stmt, g) ==
    With(extractSideEffects(stmt.expr, {"sideStmt"}, g), LAMBDA b :
    With([stmt EXCEPT !.expr = b.x], LAMBDA s1 :
        [s |-> IF Len(b.before) + Len(b.after) > 0
               THEN [s1 EXCEPT !.expr = NilE, !.op = "BlockNoBrace",
                               !.block = b.before \o << copyStmt(s1) >> \o b.after]
               ELSE s1,
         g |-> b.g]))

\* stmt.Decl.Init != nil && stmt.Decl.Init.Expr != nil
hasInit(d, g) == d \in DOMAIN g.init

\* part_005:278-287
rewriteStmtDecl(stmt, g) ==
    IF ~hasInit(stmt.decl, g) THEN [s |-> stmt, g |-> g]
    ELSE With(extractSideEffects(g.init[stmt.decl], {"sideStmt"}, g), LAMBDA b :
             [s |-> IF Len(b.before) + Len(b.after) > 0
                    THEN [stmt EXCEPT !.expr = NilE, !.op = "BlockNoBrace",
                                      !.block = b.before \o << copyStmt(stmt) >> \o b.after]
                    ELSE stmt,
              g |-> [b.g EXCEPT !.init[stmt.decl] = b.x]])

\* part_005:299-310
rewriteSwitchStmt(stmt, g) ==
    With(extractSideEffects(stmt.expr, {"sideNoAfter"}, g), LAMBDA b :
    With([stmt EXCEPT !.expr = b.x], LAMBDA s1 :
        [s |-> IF Len(b.before) > 0
               THEN [s1 EXCEPT !.expr = NilE, !.body = NilS, !.els = NilS,
                               !.op = "BlockNoBrace",
                               !.block = b.before \o << copyStmt(s1) >>]
               ELSE rewriteSwitch(s1),
         g |-> b.g]))

\* part_005:199-312; no statement of the model is an ARGBEGIN.
rewriteStmt(stmt, g) ==
    CASE stmt.op = "Do" -> rewriteDo(stmt, g)
      [] stmt.op \in {"While", "For"} -> rewriteFor(stmt, g)
      [] stmt.op \in {"If", "Return"} -> rewriteIf(stmt, g)
      [] stmt.op = "StmtExpr" -> rewriteStmtExpr(stmt, g)
      [] stmt.op = "StmtDecl" -> rewriteStmtDecl(stmt, g)
      [] stmt.op = "Switch" -> rewriteSwitchStmt(stmt, g)
      [] OTHER -> [s |-> stmt, g |-> g]

\* The declarations of the function: a, b and c are ints, p is a pointer,
\* f is a function; c is declared with an initializer.
SeDeclKind == << "Int", "Int", "Ptr", "Int", "Func" >>

\* d.Type.Kind, "none" where d.Type is nil
declKind(d, g) ==
    IF d \in DOMAIN g.tmpType THEN g.tmpType[d]
    ELSE IF d \in DOMAIN SeDeclKind THEN SeDeclKind[d]
    ELSE "none"

\* x.Op == cc.Name && x.XDecl != nil && x.XDecl.Type != nil &&
\* x.XDecl.Type.Kind == cc.Ptr
isPtrName(x, g) == x.op = "Name" /\ x.xdecl # 0 /\ declKind(x.xdecl, g) = "Ptr"

\* part_005:20-52, the callback of the first pass on an expression.  The
\* Index case writes only Type.Slice, which no expression of the model has.
rewriteExpr(x, g) ==
    CASE x.op = "Name" /\ x.text = "nil" -> [x EXCEPT !.xdecl = 0]
      [] x.op = "Name" /\ x.text = "nelem" -> [x EXCEPT !.text = "len", !.xdecl = 0]
      [] x.op = "Number" /\ x.text = "'\\0'" -> [x EXCEPT !.text = "'\\x00'"]
      [] x.op = "Number" /\ x.text = "'\\\"'" -> [x EXCEPT !.text = "'\"'"]
      [] x.op = "Paren" /\ x.left.op \in {"Number", "Name"} -> fixMerge(x, x.left)
      [] /\ x.op \in {"Eq", "EqEq", "NotEq"}
         /\ x.right.op = "Number" /\ x.right.text = "0"
         /\ isPtrName(x.left, g) ->
            [x EXCEPT !.right.op = "Name", !.right.text = "nil"]
      [] OTHER -> x

RECURSIVE preE(_, _), preS(_, _), preEList(_, _, _), preSList(_, _, _)

\* cc.Preorder on an expression: the callback, then the children the node
\* then has (Left, Right, List, Block).
preE(x, g) ==
    IF x.op = "nil" THEN [x |-> x, g |-> g]
    ELSE With(rewriteExpr(x, g), LAMBDA x1 :
         With(preE(x1.left, g), LAMBDA l :
         With(preE(x1.right, l.g), LAMBDA r :
         With(preEList(x1.list, 1, r.g), LAMBDA ys :
         With(preSList(x1.block, 1, ys.g), LAMBDA bs :
             [x |-> [x1 EXCEPT !.left = l.x, !.right = r.x,
                               !.list = ys.list, !.block = bs.list],
              g |-> bs.g])))))

preEList(list, i, g) ==
    IF i > Len(list) THEN [list |-> list, g |-> g]
    ELSE With(preE(list[i], g), LAMBDA r :
             preEList([list EXCEPT ![i] = r.x], i + 1, r.g))

\* cc.Preorder on the initializer of a declaration
preDecl(d, g) ==
    IF ~hasInit(d, g) THEN g
    ELSE With(preE(g.init[d], g), LAMBDA r : [r.g EXCEPT !.init[d] = r.x])

\* cc.Preorder on a statement: the callback (part_005:17-18), then the
\* children the statement then has (Pre, Expr, Post, Decl, Body, Else, Block).
preS(s, g) ==
    IF s.op = "nil" THEN [s |-> s, g |-> g]
    ELSE With(rewriteStmt(s, g), LAMBDA r :
         With(preE(r.s.pre, r.g), LAMBDA a :
         With(preE(r.s.expr, a.g), LAMBDA b :
         With(preE(r.s.post, b.g), LAMBDA c :
         With(preS(r.s.body, preDecl(r.s.decl, c.g)), LAMBDA e :
         With(preS(r.s.els, e.g), LAMBDA f :
         With(preSList(r.s.block, 1, f.g), LAMBDA k :
             [s |-> [r.s EXCEPT !.pre = a.x, !.expr = b.x, !.post = c.x,
                                !.body = e.s, !.els = f.s, !.block = k.list],
              g |-> k.g])))))))

preSList(list, i, g) ==
    IF i > Len(list) THEN [list |-> list, g |-> g]
    ELSE With(preS(list[i], g), LAMBDA r :
             preSList([list EXCEPT ![i] = r.s], i + 1, r.g))

isPtrOrArray(t) == t \in {"Ptr", "Array"}

\* part_005:100-118: p + y - z becomes p + (y - z)
ptrSum(x) ==
    IF /\ x.op \in {"Add", "Sub"} /\ x.xtype = "Ptr"
       /\ x.left.op \in {"Add", "Sub"} /\ x.left.xtype = "Ptr"
    THEN [x EXCEPT !.op = "Add",
                   !.left = x.left.left,
                   !.right = [Binary(x.op,
                                     IF x.left.op = "Sub"
                                     THEN [Unary("Minus", x.left.right) EXCEPT
                                              !.xtype = x.left.right.xtype]
                                     ELSE x.left.right,
                                     x.right) EXCEPT !.xtype = x.xtype]]
    ELSE x

\* part_005:120-133: c + p - q becomes c + (p - q)
ptrDiff(x) ==
    IF /\ x.op = "Sub" /\ x.left.op = "Add"
       /\ ~isPtrOrArray(x.xtype) /\ isPtrOrArray(x.left.xtype)
       /\ ~isPtrOrArray(x.left.left.xtype)
    THEN [x EXCEPT !.op = "Add",
                   !.left = x.left.left,
                   !.right = [x.left EXCEPT !.left = x.left.right,
                                            !.right = x.right,
                                            !.op = "Sub",
                                            !.xtype = x.xtype]]
    ELSE x

\* part_005:94-97
exciseStmt(s) ==
    IF s.op = "StmtExpr" /\ s.expr.op = "Comma" /\ Len(s.expr.list) = 0
    THEN [s EXCEPT !.op = "Empty"]
    ELSE s

RECURSIVE exciseE(_), exciseS(_)

\* The second pass (part_005:87-135, cc.Postorder) on an expression
exciseE(x) ==
    IF x.op = "nil" THEN x
    ELSE ptrDiff(ptrSum(
            [x EXCEPT !.left = exciseE(@), !.right = exciseE(@),
                      !.list = [i \in 1..Len(@) |-> exciseE(@[i])],
                      !.block = [i \in 1..Len(@) |-> exciseS(@[i])]]))

\* The second pass on a statement
exciseS(s) ==
    IF s.op = "nil" THEN s
    ELSE exciseStmt(
            [s EXCEPT !.pre = exciseE(@), !.expr = exciseE(@),
                      !.post = exciseE(@), !.body = exciseS(@),
                      !.els = exciseS(@),
                      !.block = [i \in 1..Len(@) |-> exciseS(@[i])]])

\* a mutant of needFixBool: a parenthesized expression always needs the fix
needFixBool_paren(x) ==
    CASE x.op = "SideEffectFunc" /\ x.text = "bool" -> FALSE
      [] x.op \in {"EqEq", "Not", "NotEq", "Lt", "LtEq", "Gt", "GtEq", "AndAnd", "OrOr"} ->
            FALSE
      [] OTHER -> TRUE

\* part_005:314-328
RECURSIVE needFixBool(_)
needFixBool(x) ==
    CASE x.op = "SideEffectFunc" /\ x.text = "bool" -> FALSE
      [] x.op \in {"EqEq", "Not", "NotEq", "Lt", "LtEq", "Gt", "GtEq", "AndAnd", "OrOr"} ->
            FALSE
      [] x.op = "Paren" -> needFixBool(x.left)
      [] OTHER -> TRUE

\* part_005:330-345
fixBool(x, g) ==
    IF ~needFixBool(x) THEN x
    ELSE With(IF x.op = "Paren" THEN x.left ELSE copyExpr(x), LAMBDA old :
             [x EXCEPT !.op = "NotEq",
                       !.left = old,
                       !.right = Name(IF isPtrName(old, g) THEN "nil" ELSE "0", 0)])

\* part_005:139-147, the callback of the third pass on an expression
fixBoolExpr(x, g) ==
    CASE x.op \in {"AndAnd", "OrOr"} ->
            [x EXCEPT !.left = fixBool(@, g), !.right = fixBool(@, g)]
      [] x.op = "Not" -> [x EXCEPT !.left = fixBool(@, g)]
      [] OTHER -> x

\* part_005:149-155, the callback of the third pass on a statement
fixBoolStmt(s, g) ==
    IF s.op \in {"If", "For"} /\ s.expr.op # "nil"
    THEN [s EXCEPT !.expr = fixBool(@, g)]
    ELSE s

RECURSIVE boolE(_, _), boolS(_, _)

\* The third pass (part_005:137-157, cc.Preorder) on an expression
boolE(x, g) ==
    IF x.op = "nil" THEN x
    ELSE [fixBoolExpr(x, g) EXCEPT
             !.left = boolE(@, g), !.right = boolE(@, g),
             !.list = [i \in 1..Len(@) |-> boolE(@[i], g)],
             !.block = [i \in 1..Len(@) |-> boolS(@[i], g)]]

\* The third pass on a statement
boolS(s, g) ==
    IF s.op = "nil" THEN s
    ELSE [fixBoolStmt(s, g) EXCEPT
             !.pre = boolE(@, g), !.expr = boolE(@, g), !.post = boolE(@, g),
             !.body = boolS(@, g), !.els = boolS(@, g),
             !.block = [i \in 1..Len(@) |-> boolS(@[i], g)]]

\* part_005:176-193, one side
cutSide(y, ops) ==
    IF y.op = "Paren" /\ y.left.op \in ops THEN fixMerge(y, y.left) ELSE y

\* part_005:176-193
cutParen(x, ops) == [x EXCEPT !.left = cutSide(@, ops), !.right = cutSide(@, ops)]

\* part_005:161-171, the callback of the fourth pass
cutParenExpr(x) ==
    CASE x.op \in {"OrEq", "AndEq", "Or", "Eq", "EqEq", "NotEq", "LtEq", "GtEq", "Lt", "Gt"} ->
            cutParen(x, {"Or", "And", "Lsh", "Rsh"})
      [] x.op = "Paren" /\ x.left.op \in {"Dot", "Arrow"} -> fixMerge(x, x.left)
      [] OTHER -> x

RECURSIVE cutE(_), cutS(_)

\* The fourth pass (part_005:159-172, cc.Postorder) on an expression
cutE(x) ==
    IF x.op = "nil" THEN x
    ELSE cutParenExpr(
            [x EXCEPT !.left = cutE(@), !.right = cutE(@),
                      !.list = [i \in 1..Len(@) |-> cutE(@[i])],
                      !.block = [i \in 1..Len(@) |-> cutS(@[i])]])

\* The fourth pass on a statement
cutS(s) ==
    IF s.op = "nil" THEN s
    ELSE [s EXCEPT !.pre = cutE(@), !.expr = cutE(@), !.post = cutE(@),
                   !.body = cutS(@), !.els = cutS(@),
                   !.block = [i \in 1..Len(@) |-> cutS(@[i])]]

\* The expressions of the function under rewriting, as the type checker left
\* them: names with their declaration and type.
Typed(x, t) == [x EXCEPT !.xtype = t]
VarA == Typed(Name("a", 1), "Int")
VarB == Typed(Name("b", 2), "Int")
VarP == Typed(Name("p", 3), "Ptr")
CallF == Listed("Call", Name("f", 5), <<>>)
Paren(x) == Unary("Paren", x)
Comma(list) == MkE("Comma", "", NilE, NilE, list)
Ternary(c, y, z) == MkE("Cond", "", NilE, NilE, <<c, y, z>>)

\* Operands: with and without side effects, plain and parenthesized.
SeOperands ==
    { VarA,
      Unary("PostInc", VarA),
      Unary("PreDec", VarB),
      Paren(Binary("Eq", VarA, VarB)),
      Binary("AddEq", VarA, VarB),
      Paren(Comma(<<VarA, VarB>>)),
      Paren(Comma(<<CallF, VarA>>)),
      Paren(Comma(<<Binary("Eq", VarA, VarB), VarA>>)),
      Ternary(VarA, VarB, Number("1")),
      Binary("Lt", Unary("PostInc", VarA), VarB) }

\* Conditions that are not built from && and ||.
SeSimple ==
    SeOperands \cup
    { Binary("Eq", VarA, VarB),
      Paren(Comma(<<Unary("PreInc", VarA), Unary("PostInc", VarB), VarA>>)),
      Paren(Comma(<<Paren(Comma(<<Binary("Eq", VarA, VarB), VarB>>)), VarA>>)),
      Ternary(Unary("PostInc", VarA), Paren(Binary("Eq", VarA, VarB)), VarB),
      Binary("NotEq", Paren(Binary("Eq", VarP, CallF)), Number("0")),
      Binary("EqEq", VarP, Number("0")),
      Unary("Not", Paren(Binary("Eq", VarA, VarB))),
      Typed(Binary("Sub", Typed(Binary("Add", VarP, VarA), "Ptr"), VarB), "Ptr"),
      Typed(Binary("Sub", Typed(Binary("Add", VarA, VarP), "Ptr"), VarP), "Int"),
      Binary("EqEq", Paren(Binary("And", VarA, VarB)), Number("0")),
      Paren(Dot(VarA, "x")),
      Paren(Name("nelem", 0)),
      Paren(Binary("Lt", VarA, VarB)),
      Paren(VarP),
      Paren(Paren(VarP)),
      Number("'\\0'"),
      VarP }

\* The conditions of the if, for, while, do and switch statements.
SeConds ==
    SeSimple
    \cup { Binary(op, x, y) : op \in {"AndAnd", "OrOr"}, x \in SeOperands, y \in SeOperands }
    \cup { Binary("AndAnd", Binary("AndAnd", VarA, x), y) :
             x \in { VarB, Unary("PostInc", VarA) },
             y \in { VarB, Paren(Binary("Eq", VarA, VarB)) } }
    \cup { Binary("OrOr", Binary("AndAnd", VarA, Unary("PostInc", VarB)), VarA) }

CallG == CallStmt("g")
CallH == CallStmt("h")
While(cond, body) == [MkS("While") EXCEPT !.expr = cond, !.body = body]
DoWhile(body, cond) == [MkS("Do") EXCEPT !.expr = cond, !.body = body]
Return(x) == [MkS("Return") EXCEPT !.expr = x]
Switch(x, body) == [MkS("Switch") EXCEPT !.expr = x, !.body = body]

\* The clauses of the for statements that have an init or a post clause.
SePre ==
    { Binary("Eq", VarA, Number("0")),
      Binary("Eq", VarA, Unary("PostInc", VarB)),
      Comma(<<Binary("Eq", VarA, Number("0")), Binary("Eq", VarB, Number("0"))>>) }

SePost ==
    { Unary("PreInc", VarA),
      Binary("Eq", VarA, Unary("PostInc", VarB)),
      Comma(<<Unary("PostInc", VarA), Unary("PostInc", VarB)>>) }

\* The initializers of the declaration of c.
SeInits ==
    { Number("3"),
      Unary("PostInc", VarA),
      Binary("AndAnd", VarA, Unary("PostInc", VarB)),
      Ternary(VarA, VarB, Unary("PostInc", VarB)) }

\* The statements handed to rewriteSyntax.
SeStmts ==
    { If(c, CallG, NilS) : c \in SeConds }
    \cup { If(c, CallG, CallH) : c \in SeConds }
    \cup { For(NilE, c, NilE, Block(<<CallG>>)) : c \in SeConds }
    \cup { While(c, Block(<<CallG>>)) : c \in SeSimple }
    \cup { DoWhile(CallG, c) : c \in SeSimple }
    \cup { Return(c) : c \in SeSimple }
    \cup { StmtExpr(c) : c \in SeSimple }
    \cup { Switch(c, Block(<<Labeled(CallG, <<CaseLab>>), Break, Labeled(CallH, <<DefaultLab>>)>>)) :
             c \in SeOperands }
    \cup { For(pre, Binary("Lt", VarA, VarB), post, Block(<<CallG>>)) :
             pre \in SePre, post \in SePost }
    \cup { For(NilE, NilE, NilE, Block(<<If(c, Break, NilS)>>)) : c \in SeOperands }

\* The first numbers tmpGen may hand out: earlier files have drawn some.
SeFirstTmp == {1, 10}

InitTable(x) == (4 :> x)
NoInits == << >>

SeInit ==
    /\ sePc = "rewrite"
    /\ \/ /\ seIn \in { Block(<<s>>) : s \in SeStmts }
          /\ seG \in { [gen |-> n, tmpType |-> << >>, init |-> NoInits] : n \in SeFirstTmp }
       \/ /\ seIn = Block(<<StmtDecl(4), CallG>>)
          /\ seG \in { [gen |-> n, tmpType |-> << >>, init |-> InitTable(x)] :
                         n \in SeFirstTmp, x \in SeInits }
    /\ seTree = seIn

\* The first pass (part_005:15-83): statements and expressions rewritten
\* in preorder.
SeRewrite ==
    /\ sePc = "rewrite"
    /\ \E r \in {preS(seTree, seG)} : seTree' = r.s /\ seG' = r.g
    /\ sePc' = "excise"
    /\ UNCHANGED seIn
    /\ UNCHANGED seOthers

\* The second pass (part_005:87-135).
SeExcise ==
    /\ sePc = "excise"
    /\ seTree' = exciseS(seTree)
    /\ seG' = [seG EXCEPT !.init = [d \in DOMAIN @ |-> exciseE(@[d])]]
    /\ sePc' = "fixBool"
    /\ UNCHANGED seIn
    /\ UNCHANGED seOthers

\* The third pass (part_005:137-157).
SeFixBool ==
    /\ sePc = "fixBool"
    /\ seTree' = boolS(seTree, seG)
    /\ seG' = [seG EXCEPT !.init = [d \in DOMAIN @ |-> boolE(@[d], seG)]]
    /\ sePc' = "cutParen"
    /\ UNCHANGED seIn
    /\ UNCHANGED seOthers

\* The fourth pass (part_005:159-172); rewriteSyntax returns.
SeCutParen ==
    /\ sePc = "cutParen"
    /\ seTree' = cutS(seTree)
    /\ seG' = [seG EXCEPT !.init = [d \in DOMAIN @ |-> cutE(@[d])]]
    /\ sePc' = "done"
    /\ UNCHANGED seIn
    /\ UNCHANGED seOthers

SeNext == SeRewrite \/ SeExcise \/ SeFixBool \/ SeCutParen

RECURSIVE StmtsOfS(_), StmtsOfE(_)

\* Every statement of a tree, those held by expressions included.
StmtsOfS(s) ==
    IF s.op = "nil" THEN {}
    ELSE {s} \cup StmtsOfE(s.pre) \cup StmtsOfE(s.expr) \cup StmtsOfE(s.post)
             \cup StmtsOfS(s.body) \cup StmtsOfS(s.els)
             \cup UNION { StmtsOfS(s.block[i]) : i \in 1..Len(s.block) }

StmtsOfE(x) ==
    IF x.op = "nil" THEN {}
    ELSE StmtsOfE(x.left) \cup StmtsOfE(x.right)
         \cup UNION { StmtsOfE(x.list[i]) : i \in 1..Len(x.list) }
         \cup UNION { StmtsOfS(x.block[i]) : i \in 1..Len(x.block) }
         \cup UNION { StmtsOfS(x.after[i]) : i \in 1..Len(x.after) }

\* The sub-expressions of an expression: itself and what its operands
\* (Left, Right, List) hold.
RECURSIVE SubExprs(_)
SubExprs(x) ==
    IF x.op = "nil" THEN {}
    ELSE {x} \cup SubExprs(x.left) \cup SubExprs(x.right)
             \cup UNION { SubExprs(x.list[i]) : i \in 1..Len(x.list) }

\* Every statement and every expression of the tree rewriteSyntax worked on.
SeStmtsNow == StmtsOfS(seTree) \cup UNION { StmtsOfE(seG.init[d]) : d \in DOMAIN seG.init }
SeExprsNow ==
    UNION { SubExprs(s.pre) \cup SubExprs(s.expr) \cup SubExprs(s.post) : s \in SeStmtsNow }
    \cup UNION { SubExprs(seG.init[d]) : d \in DOMAIN seG.init }

\* The operands of x, if x is &&, || or ?:.
CondOperands(x) ==
    CASE x.op \in {"AndAnd", "OrOr"} -> {x.left, x.right}
      [] x.op = "Cond" -> { x.list[i] : i \in 1..Len(x.list) }
      [] OTHER -> {}

IncDecAssign == {"PreInc", "PreDec", "PostInc", "PostDec"} \cup AssignOps

HasOp(x, ops) == \E y \in SubExprs(x) : y.op \in ops

\* The conditions of the tree: of an if, of a for, and the operands of
\* &&, || and ?:.
SeConditions ==
    { s.expr : s \in { t \in SeStmtsNow : t.op \in {"If", "For"} } }
    \cup UNION { CondOperands(x) : x \in SeExprsNow }

\* C3: after rewriteSyntax, no if condition, no for condition and no
\* operand of &&, || or ?: contains ++, --, =, a compound assignment, a
\* comma expression or a ternary as a sub-expression.
C3_NoSideEffectsInConditions ==
    sePc = "done" =>
        \A c \in SeConditions : ~HasOp(c, IncDecAssign \cup {"Comma", "Cond"})

(***************************************************************************)
(* extractSideEffects (part_005:515-518) on one expression with a          *)
(* conditionally evaluated operand.                                        *)
(***************************************************************************)
\* Operands of &&, || and ?:.
SxOperands ==
    SeOperands \cup
    { VarB,
      Binary("OrOr", VarA, VarB),
      Binary("AndAnd", VarB, Unary("PostInc", VarA)),
      Paren(Comma(<<Unary("PreInc", VarA), VarB>>)) }

SxExprs ==
    { Binary(op, x, y) : op \in {"AndAnd", "OrOr"}, x \in SxOperands, y \in SxOperands }
    \cup { Ternary(c, y, z) : c \in {VarA, Unary("PostInc", VarA), Binary("Eq", VarA, VarB)},
                              y \in SxOperands, z \in SxOperands }

CallOf(list) == Listed("Call", Name("f", 5), list)

\* Comma lists: statement-legal operators first, in the middle and last,
\* a call, a ternary and nested side effects among the survivors.
SxCommas ==
    { Comma(<<Unary("PostInc", VarA), Binary("Eq", VarB, VarA), CallF, VarA>>),
      Comma(<<Binary("Eq", VarA, Number("0")), Binary("Eq", VarB, Number("0"))>>),
      Comma(<<Unary("PreInc", VarA), Unary("PostDec", VarB)>>),
      Comma(<<VarA, Binary("SubEq", VarB, VarA), Binary("Add", VarA, VarB)>>),
      Comma(<<Paren(Binary("Eq", VarA, VarB)), VarB, VarA>>),
      Comma(<<Binary("Add", Unary("PostInc", VarA), VarB), Unary("PreDec", VarB), VarA>>),
      Comma(<<Ternary(VarA, VarB, Number("1")), Unary("PostInc", VarB), VarB>>),
      Comma(<<VarB, VarA>>) }

\* Expressions without a conditionally evaluated operand at the top.
SxPlain ==
    { Unary("PostInc", VarA),
      Unary("PostDec", VarB),
      Unary("PostInc", Dot(VarA, "x")),
      Unary("PreInc", VarA),
      Binary("Add", Unary("PostInc", VarA), VarB),
      Binary("Add", Unary("PostInc", VarA), Unary("PostDec", VarB)),
      Binary("Eq", VarA, Unary("PostInc", VarB)),
      Binary("Index", VarP, Unary("PostInc", VarA)),
      Unary("PostInc", Binary("Index", VarP, VarA)),
      Unary("PostInc", Binary("Index", VarP, Unary("PostInc", VarB))),
      Unary("PostDec", Paren(VarA)),
      CallOf(<<Unary("PostInc", VarA), VarB>>),
      CallOf(<<Paren(Unary("PostDec", VarB))>>),
      Unary("Not", Unary("PostInc", VarA)),
      Binary("Lt", VarA, VarB),
      VarA }
    \cup SxCommas

\* sideStmt and sideNoAfter, the bits of mode.
SxModes == SUBSET {"sideStmt", "sideNoAfter"}

SxG(n) == [gen |-> n, tmpType |-> << >>, init |-> NoInits]

SxInit ==
    /\ sxPc = "call"
    /\ sxIn \in SxExprs \cup SxPlain
    /\ sxMode \in SxModes
    /\ sxGen \in SeFirstTmp
    /\ sxOut = 0

\* part_005:515-518
SxExtract ==
    /\ sxPc = "call"
    /\ sxOut' = extractSideEffects(sxIn, sxMode, SxG(sxGen))
    /\ sxPc' = "done"
    /\ UNCHANGED <<sxIn, sxMode, sxGen>>
    /\ UNCHANGED sxOthers

SxNext == SxExtract

\* The mode in which doSideEffects goes into the operand that is always
\* evaluated.
C18_FirstMode == (sxMode \ {"sideStmt"}) \cup {"sideNoAfter"}

C18_Conditional == {"AndAnd", "OrOr", "Cond"}

\* out is what became of the conditionally evaluated operand b, rb being
\* what doSideEffects makes of b alone, with lists of its own: when rb has
\* statements, out is a SideEffectFunc with the tag, holding the residue
\* and the statements; when it has none, out is b itself or, unless strict,
\* b with a conditionally evaluated operand inside it replaced in the same
\* way.
C18_Operand(strict, b, rb, out, tag) ==
    IF Len(rb.st.before) + Len(rb.st.after) > 0
    THEN /\ out.op = "SideEffectFunc"
         /\ out.text = tag
         /\ out.left = rb.x
         /\ out.block = rb.st.before
         /\ out.after = rb.st.after
    ELSE /\ out.op = b.op
         /\ \/ out = b
            \/ ~strict /\ HasOp(b, C18_Conditional) /\ HasOp(out, {"SideEffectFunc"})

\* After extractSideEffects on a && b or a || b, the before and after
\* lists are those of a alone and b is as C18_Operand says, tagged bool;
\* after extractSideEffects on a ? b : c, the after list is that of a
\* alone, the before list is that of a followed by the declaration of the
\* temporary and the if statement that assigns it, and b and c, in the two
\* branches of that if, are as C18_Operand says, tagged unknown.
C18_Extracted(strict) ==
    (sxPc = "done" /\ sxIn.op \in C18_Conditional) =>
        \A ra \in {doSideEffects(IF sxIn.op = "Cond" THEN sxIn.list[1] ELSE sxIn.left,
                                 C18_FirstMode, NoStmts(SxG(sxGen)))} :
            /\ sxOut.after = ra.st.after
            /\ IF sxIn.op = "Cond"
               THEN \A ry \in {doSideEffects(sxIn.list[2], {}, NoStmts(ra.st.g))} :
                    \A rz \in {doSideEffects(sxIn.list[3], {}, NoStmts(ry.st.g))} :
                       /\ Len(sxOut.before) = Len(ra.st.before) + 2
                       /\ SubSeq(sxOut.before, 1, Len(ra.st.before)) = ra.st.before
                       /\ sxOut.before[Len(sxOut.before) - 1].op = "StmtDecl"
                       /\ \A s \in {sxOut.before[Len(sxOut.before)]} :
                             /\ s.op = "If"
                             /\ s.expr = ra.x
                             /\ s.body.expr.left = s.els.expr.left
                             /\ s.body.expr.left.text = sxOut.x.text
                             /\ C18_Operand(strict, sxIn.list[2], ry, s.body.expr.right, "unknown")
                             /\ C18_Operand(strict, sxIn.list[3], rz, s.els.expr.right, "unknown")
               ELSE \A rb \in {doSideEffects(sxIn.right, {}, NoStmts(ra.st.g))} :
                       /\ sxOut.before = ra.st.before
                       /\ sxOut.x.op = sxIn.op
                       /\ sxOut.x.left = ra.x
                       /\ C18_Operand(strict, sxIn.right, rb, sxOut.x.right, "bool")

\* C18 as the claim states it: the statements of the conditionally
\* evaluated operands never reach the host's lists; an operand with
\* statements becomes a SideEffectFunc holding residue and statements, an
\* operand with none is left as it was.
C18_Original == C18_Extracted(TRUE)

\* C18 amended: as the claim states it, except that an operand with no
\* statements of its own is left as it was only up to the conditionally
\* evaluated operands inside it, which are replaced by the same rule.
C18_ConditionalOperandsWrapped == C18_Extracted(FALSE)

\* C18 witness: in a && (b && a++) the operand b && a++ put nothing in
\* lists of its own and is still an &&, but the a++ inside it is now a
\* SideEffectFunc tagged bool that holds a and the statement a++; the
\* host's lists are empty.
C18_Witness ==
    /\ sxPc = "done"
    /\ sxIn = Binary("AndAnd", VarA, Binary("AndAnd", VarB, Unary("PostInc", VarA)))
    /\ sxMode = {}
    /\ sxOut.before = <<>>
    /\ sxOut.after = <<>>
    /\ sxOut.x.right.op = "AndAnd"
    /\ sxOut.x.right.left = VarB
    /\ sxOut.x.right.right.op = "SideEffectFunc"
    /\ sxOut.x.right.right.text = "bool"
    /\ sxOut.x.right.right.left = VarA
    /\ sxOut.x.right.right.after = <<StmtExpr(Unary("PostInc", VarA))>>

\* C22: extractSideEffects called with the sideNoAfter flag returns an empty
\* after list, so a caller that keeps only before drops no statement: what
\* is left of the expression holds no ++, -- or assignment outside the
\* SideEffectFuncs of its conditionally evaluated operands.
C22_NoAfterWithFlag ==
    (sxPc = "done" /\ "sideNoAfter" \in sxMode) =>
        /\ sxOut.after = <<>>
        /\ \A y \in SubExprs(sxOut.x) :
              y.op \in {"PostInc", "PostDec", "PreInc", "PreDec"} \cup AssignOps =>
                  \/ "sideStmt" \in sxMode /\ y = sxOut.x
                  \/ \E z \in SubExprs(sxOut.x) :
                        z.op = "SideEffectFunc" /\ y \in SubExprs(z.left)

\* C22 witness: f(a++, b) with sideNoAfter: both statements are in before
C22_Witness ==
    /\ sxPc = "done"
    /\ sxMode = {"sideNoAfter"}
    /\ sxIn = CallOf(<<Unary("PostInc", VarA), VarB>>)
    /\ Len(sxOut.before) = 2
    /\ sxOut.before[2] = StmtExpr(Unary("PostInc", VarA))
    /\ sxOut.after = <<>>

\* What the expressions mean: a store gives every object its value; the
\* elements of the array p are the objects p0..p3.
PElem == <<"p0", "p1", "p2", "p3">>

Store0 ==
    [l \in {"a", "b", "a.x", "p0", "p1", "p2", "p3"} |->
        CASE l = "a" -> 1 [] l = "b" -> 0 [] l = "a.x" -> 5
          [] l = "p0" -> 10 [] l = "p1" -> 20 [] l = "p2" -> 30 [] OTHER -> 40]

Put(s, l, v) == [k \in DOMAIN s \cup {l} |-> IF k = l THEN v ELSE s[k]]

\* The value v of e in the store s, the object loc it designates ("" when
\* it is no lvalue) and the store its side effects leave, operands left to
\* right.
RECURSIVE Ev(_, _)
Ev(e, s) ==
    CASE e.op = "Name" -> [v |-> s[e.text], loc |-> e.text, s |-> s]
      [] e.op = "Number" ->
            [v |-> (CHOOSE i \in DOMAIN Digits : Digits[i] = e.text) - 1, loc |-> "", s |-> s]
      [] e.op = "Paren" -> Ev(e.left, s)
      [] e.op = "Dot" ->
            With(Ev(e.left, s), LAMBDA l :
                [v |-> l.s[l.loc \o "." \o e.text], loc |-> l.loc \o "." \o e.text, s |-> l.s])
      [] e.op = "Index" ->
            With(Ev(e.right, s), LAMBDA r :
                [v |-> r.s[PElem[r.v + 1]], loc |-> PElem[r.v + 1], s |-> r.s])
      [] e.op \in {"PostInc", "PostDec"} ->
            With(Ev(e.left, s), LAMBDA x :
                [v |-> x.v, loc |-> "",
                 s |-> Put(x.s, x.loc, IF e.op = "PostInc" THEN x.v + 1 ELSE x.v - 1)])
      [] e.op \in {"PreInc", "PreDec"} ->
            With(Ev(e.left, s), LAMBDA x :
            With(IF e.op = "PreInc" THEN x.v + 1 ELSE x.v - 1, LAMBDA n :
                [v |-> n, loc |-> "", s |-> Put(x.s, x.loc, n)]))
      [] e.op = "ColonEq" ->
            With(Ev(e.right, s), LAMBDA r :
                [v |-> r.v, loc |-> "", s |-> Put(r.s, e.left.text, r.v)])
      [] e.op = "Eq" ->
            With(Ev(e.left, s), LAMBDA l :
            With(Ev(e.right, l.s), LAMBDA r :
                [v |-> r.v, loc |-> "", s |-> Put(r.s, l.loc, r.v)]))
      [] e.op = "Add" ->
            With(Ev(e.left, s), LAMBDA l :
            With(Ev(e.right, l.s), LAMBDA r :
                [v |-> l.v + r.v, loc |-> "", s |-> r.s]))
      [] OTHER -> [v |-> 0, loc |-> "", s |-> s]

\* The store after the expression statements of a list, in order.
RECURSIVE Run(_, _)
Run(stmts, s) == IF stmts = <<>> THEN s ELSE Run(Tail(stmts), Ev(Head(stmts).expr, s).s)

\* x++ or x-- used as a value: the whole expression, not in statement position
C23_Case == sxPc = "done" /\ sxIn.op \in {"PostInc", "PostDec"} /\ "sideStmt" \notin sxMode

\* the lists and the residue are as the claim says, rx being what the
\* extractor makes of the operand x
C23_Shape(rx) ==
    IF "sideNoAfter" \in sxMode
    THEN /\ sxOut.x.op = "Name"
         /\ sxOut.x.text = tmpName(rx.st.g.gen)
         /\ sxOut.before = rx.st.before \o
                << StmtExpr(Binary("ColonEq", Name(sxOut.x.text, sxOut.x.xdecl), rx.x)),
                   StmtExpr(Unary(sxIn.op, rx.x)) >>
         /\ sxOut.after = rx.st.after
    ELSE /\ sxOut.x = rx.x
         /\ sxOut.before = rx.st.before
         /\ sxOut.after = Append(rx.st.after, StmtExpr(Unary(sxIn.op, rx.x)))

\* run before, evaluate the residue, run after: the residue has the value
\* the object x had before the increment, and the objects of the program
\* end as the C expression leaves them, x changed by one
C23_Meaning ==
    \A c \in {Ev(sxIn, Store0)} :
    \A s1 \in {Run(sxOut.before, Store0)} :
    \A r \in {Ev(sxOut.x, s1)} :
    \A s2 \in {Run(sxOut.after, r.s)} :
        /\ r.v = c.v
        /\ \A l \in DOMAIN Store0 : s2[l] = c.s[l]

\* whether the operand x of the increment has a side effect of its own
C23_OperandHasEffect == HasOp(sxIn.left, IncDecAssign)

\* C23: for x++ or x-- used as a value, with sideNoAfter t := x and x++ are
\* appended to before and the residue is the fresh temporary t, without it
\* x++ is appended to after and the residue is x; in both modes the residue
\* evaluates to the value x had before the increment and x is incremented
\* exactly once.
C23_PostIncAsValue ==
    C23_Case =>
        /\ C23_Shape(doSideEffects(sxIn.left, sxMode, NoStmts(SxG(sxGen))))
        /\ C23_Meaning

\* ++x and --x are lifted as x++ and x--
C24_AsStmt(y) ==
    StmtExpr(IF y.op = "PreInc" THEN [y EXCEPT !.op = "PostInc"]
             ELSE IF y.op = "PreDec" THEN [y EXCEPT !.op = "PostDec"]
             ELSE y)

\* an element that is no ternary and whose operands have no side effect and
\* no conditional operand
C24_Plain(y) ==
    /\ y.op # "Cond"
    /\ \A z \in SubExprs(y) \ {y} : z.op \notin IncDecAssign \cup {"Cond", "AndAnd", "OrOr", "Comma"}

\* the statements of the elements i..n of the list that are in lift, in order
RECURSIVE C24_Stmts(_, _, _)
C24_Stmts(list, i, lift) ==
    IF i > Len(list) THEN <<>>
    ELSE (IF i \in lift THEN <<C24_AsStmt(list[i])>> ELSE <<>>) \o C24_Stmts(list, i + 1, lift)

\* the elements i..n of the list that are not in lift, in order
RECURSIVE C24_Rest(_, _, _)
C24_Rest(list, i, lift) ==
    IF i > Len(list) THEN <<>>
    ELSE (IF i \in lift THEN <<>> ELSE <<list[i]>>) \o C24_Rest(list, i + 1, lift)

\* whether the operators of a occur, in order, among those of b
RECURSIVE C24_OpsWithin(_, _)
C24_OpsWithin(a, b) ==
    IF a = <<>> THEN TRUE
    ELSE IF b = <<>> THEN FALSE
    ELSE IF Head(a).expr.op = Head(b).expr.op THEN C24_OpsWithin(Tail(a), Tail(b))
    ELSE C24_OpsWithin(a, Tail(b))

\* before is exactly the statements of the elements in lift and the list
\* exactly the other elements, when every element is plain and the last
\* one is lifted whole or has no side effect; in every case the lifted
\* statements are in before in source order and as many elements are left
\* as are not in lift, the last one, when it had a side effect, as residue.
C24_Lifts(lift) ==
    \A list \in {sxIn.list} : \A n \in {Len(sxIn.list)} :
        /\ sxOut.after = <<>>
        /\ sxOut.x.op = "Comma"
        /\ Len(sxOut.x.list) = n - Cardinality(lift)
        /\ C24_OpsWithin(C24_Stmts(list, 1, lift), sxOut.before)
        /\ (\A i \in 1..n : C24_Plain(list[i])) =>
              /\ SubSeq(sxOut.before, 1, Cardinality(lift)) = C24_Stmts(list, 1, lift)
              /\ IF n \in lift \/ list[n].op \notin IncDecAssign
                 THEN /\ sxOut.before = C24_Stmts(list, 1, lift)
                      /\ sxOut.x.list = C24_Rest(list, 1, lift)
                 ELSE /\ Len(sxOut.before) > Cardinality(lift)
                      /\ SubSeq(sxOut.x.list, 1, n - Cardinality(lift) - 1)
                            = SubSeq(C24_Rest(list, 1, lift), 1, n - Cardinality(lift) - 1)
                      /\ ~HasOp(sxOut.x.list[n - Cardinality(lift)], IncDecAssign)

C24_Case == sxPc = "done" /\ sxIn.op = "Comma"

\* C24 as stated: exactly the non-rightmost elements whose top operator is
\* ++, --, = or a compound assignment are lifted to before, the rightmost
\* and every other element stay in the list.
C24_Original ==
    C24_Case =>
        /\ C24_Lifts({ i \in 1..(Len(sxIn.list) - 1) : sxIn.list[i].op \in IncDecAssign })
        /\ (\A i \in 1..Len(sxIn.list) : C24_Plain(sxIn.list[i])) =>
              sxOut.before = C24_Stmts(sxIn.list, 1,
                  { i \in 1..(Len(sxIn.list) - 1) : sxIn.list[i].op \in IncDecAssign })

\* C24: for a comma expression the elements whose top operator is ++, --, =
\* or a compound assignment are lifted to before in source order when they
\* are not the rightmost one, and the rightmost one too when the comma
\* expression is in statement position (sideStmt); every other element
\* stays in the list in the original order; a rightmost element with such
\* an operator outside statement position leaves its residue in the list
\* and its statements in before, after the lifted ones.
C24_CommaLifted ==
    C24_Case =>
        C24_Lifts({ i \in 1..Len(sxIn.list) :
                      /\ sxIn.list[i].op \in IncDecAssign
                      /\ (i < Len(sxIn.list) \/ "sideStmt" \in sxMode) })

\* C24 witness: the for-init list a = 0, b = 0 in statement position: both
\* assignments are in before and the list is empty
C24_Witness ==
    /\ sxPc = "done"
    /\ sxMode = {"sideStmt", "sideNoAfter"}
    /\ sxIn = Comma(<<Binary("Eq", VarA, Number("0")), Binary("Eq", VarB, Number("0"))>>)
    /\ sxOut.before = <<StmtExpr(Binary("Eq", VarA, Number("0"))),
                        StmtExpr(Binary("Eq", VarB, Number("0")))>>
    /\ sxOut.x.list = <<>>

(***************************************************************************)
(* main and parseRules (main.go:58-99, rewrite.go:28-48).  A line of the   *)
(* rule file is the sequence of its characters.                            *)
(***************************************************************************)
Space == {" ", "\t"}

\* strings.TrimSpace
RECURSIVE TrimLeft(_), TrimRight(_)
TrimLeft(s) == IF s # <<>> /\ Head(s) \in Space THEN TrimLeft(Tail(s)) ELSE s
TrimRight(s) ==
    IF s # <<>> /\ s[Len(s)] \in Space THEN TrimRight(SubSeq(s, 1, Len(s) - 1)) ELSE s
TrimSpace(s) == TrimRight(TrimLeft(s))

\* strings.Index(s, "->"), from 1; 0 when there is none.
RECURSIVE IndexArrow(_, _)
IndexArrow(s, i) ==
    IF i >= Len(s) THEN 0
    ELSE IF s[i] = "-" /\ s[i + 1] = ">" THEN i
    ELSE IndexArrow(s, i + 1)

\* strings.Split(s, "->")
RECURSIVE Split(_)
Split(s) ==
    LET i == IndexArrow(s, 1)
    IN  IF i = 0 THEN <<s>>
        ELSE <<SubSeq(s, 1, i - 1)>> \o Split(SubSeq(s, i + 2, Len(s)))

\* parser.ParseExpr on the expressions of identifiers (a, aa, ...), string
\* literals, unary + and -, binary +, -, > and >>: whether err == nil.
RECURSIVE parseOperand(_, _), parseOperator(_, _), parseString(_, _), parseIdent(_, _)
parseOperand(s, i) ==
    IF i > Len(s) THEN FALSE
    ELSE CASE s[i] \in Space -> parseOperand(s, i + 1)
           [] s[i] = "a" -> parseIdent(s, i + 1)
           [] s[i] \in {"-", "+"} ->
                IF i < Len(s) /\ s[i + 1] = s[i] THEN FALSE   \* the token -- or ++
                ELSE parseOperand(s, i + 1)
           [] s[i] = "\"" -> parseString(s, i + 1)
           [] OTHER -> FALSE
parseIdent(s, i) ==
    IF i <= Len(s) /\ s[i] = "a" THEN parseIdent(s, i + 1) ELSE parseOperator(s, i)
parseString(s, i) ==
    IF i > Len(s) THEN FALSE
    ELSE IF s[i] = "\"" THEN parseOperator(s, i + 1)
    ELSE parseString(s, i + 1)
parseOperator(s, i) ==
    IF i > Len(s) THEN TRUE
    ELSE CASE s[i] \in Space -> parseOperator(s, i + 1)
           [] s[i] \in {"-", "+"} ->
                IF i < Len(s) /\ s[i + 1] = s[i] THEN FALSE
                ELSE parseOperand(s, i + 1)
           [] s[i] = ">" ->
                IF i < Len(s) /\ s[i + 1] = ">" THEN parseOperand(s, i + 2)
                ELSE parseOperand(s, i + 1)
           [] OTHER -> FALSE
ParseExpr(s) == parseOperand(s, 1)

\* The test of rewrite.go:31 as it would be on the line as read.
skipLine_noTrim(line) == line = <<>> \/ line[1] = "#"

\* rewrite.go:30-33: the line is skipped.
skipLine(line) ==
    LET t == TrimSpace(line) IN t = <<>> \/ t[1] = "#"

\* rewrite.go:34-46: the rule of a line that is not skipped, or the error.
parseRule(line) ==
    LET f == Split(TrimSpace(line))
    IN  IF Len(f) # 2 THEN [err |-> "rewrite rule must be 'old -> new'"]
        ELSE IF ~ParseExpr(f[1]) THEN [err |-> "old"]
        ELSE IF ~ParseExpr(f[2]) THEN [err |-> "new"]
        ELSE [err |-> "", old |-> f[1], new |-> f[2]]

\* Lines of a rule file.
PrLines ==
    { <<>>,
      <<" ", "\t">>,
      <<"#", " ", "a">>,
      <<" ", "#", "a", "-", ">", "a">>,
      <<"a", "-", ">", "a">>,
      <<" ", "a", " ", "-", ">", " ", "a", "+", "a", " ">>,
      <<"a", ">", "a", "-", ">", "-", "a">>,
      <<"a">>,
      <<"a", "-", ">">>,
      <<"-", ">", "a">>,
      <<"a", "-", ">", "a", "-", ">", "a">>,
      <<"a", "+", "-", ">", "a">>,
      <<"a", "-", ">", "a", " ", "a">>,
      <<"a", "-", ">", "a", "#">>,
      <<"\"", "-", ">", "\"", "-", ">", "a">> }

MaxRuleLines == 2
MaxArgs == 2

PrFiles == UNION { [1..n -> PrLines] : n \in 0..MaxRuleLines }

PrInit ==
    /\ prPc = "rulefile"
    /\ prFlags \in [rulefile : BOOLEAN, w : BOOLEAN, nargs : 0..MaxArgs]
    /\ prData \in PrFiles
    /\ prI = 0
    /\ prRules = <<>>
    /\ prArg = 1
    /\ prRead = 0
    /\ prOut = 0
    /\ prLog = ""

\* main.go:64-70: without -r there is nothing to parse; else ReadFile gives
\* the rule file or fails.
PrReadRules ==
    /\ prPc = "rulefile"
    /\ \/ /\ ~prFlags.rulefile
          /\ prPc' = "args"
          /\ UNCHANGED <<prI, prLog>>
       \/ /\ prFlags.rulefile
          /\ prPc' = "parseRules"
          /\ prI' = 1
          /\ UNCHANGED prLog
       \/ /\ prFlags.rulefile
          /\ prPc' = "exit"
          /\ prLog' = "read rule file"
          /\ UNCHANGED prI
    /\ UNCHANGED <<prFlags, prData, prRules, prArg, prRead, prOut>>
    /\ UNCHANGED prOthers

\* rewrite.go:29-47: one turn of the range loop over the lines.
PrRuleLine ==
    /\ prPc = "parseRules"
    /\ prI <= Len(prData)
    /\ IF skipLine(prData[prI])
       THEN /\ prI' = prI + 1
            /\ UNCHANGED <<prPc, prRules, prLog>>
       ELSE \E r \in {parseRule(prData[prI])} :
              IF r.err # ""
              THEN /\ prPc' = "exit"
                   /\ prLog' = "rule"
                   /\ UNCHANGED <<prI, prRules>>
              ELSE /\ prRules' = Append(prRules, [old |-> r.old, new |-> r.new])
                   /\ prI' = prI + 1
                   /\ UNCHANGED <<prPc, prLog>>
    /\ UNCHANGED <<prFlags, prData, prArg, prRead, prOut>>
    /\ UNCHANGED prOthers

\* rewrite.go:48: parseRules returns.
PrRulesDone ==
    /\ prPc = "parseRules"
    /\ prI > Len(prData)
    /\ prPc' = "args"
    /\ UNCHANGED <<prFlags, prData, prI, prRules, prArg, prRead, prOut, prLog>>
    /\ UNCHANGED prOthers

\* main.go:72-80: no arguments: standard input is read, translated and
\* written; reading and translating may end the program.
PrStdin ==
    /\ prPc = "args"
    /\ prFlags.nargs = 0
    /\ \/ /\ prLog' = "read input"
          /\ UNCHANGED <<prRead, prOut>>
       \/ /\ prRead' = prRead + 1
          /\ prLog' = "do"
          /\ UNCHANGED prOut
       \/ /\ prRead' = prRead + 1
          /\ prOut' = prOut + 1
          /\ UNCHANGED prLog
    /\ prPc' = "exit"
    /\ UNCHANGED <<prFlags, prData, prI, prRules, prArg>>
    /\ UNCHANGED prOthers

\* main.go:82-98: one turn of the loop over the arguments: the file is
\* read, translated and written to the .go file (-w) or to standard output.
PrFile ==
    /\ prPc = "args"
    /\ prFlags.nargs > 0
    /\ prArg <= prFlags.nargs
    /\ \/ /\ prLog' = "read input"
          /\ prPc' = "exit"
          /\ UNCHANGED <<prArg, prRead, prOut>>
       \/ /\ prRead' = prRead + 1
          /\ prLog' = "do"
          /\ prPc' = "exit"
          /\ UNCHANGED <<prArg, prOut>>
       \/ /\ prFlags.w
          /\ prRead' = prRead + 1
          /\ prLog' = "write"
          /\ prPc' = "exit"
          /\ UNCHANGED <<prArg, prOut>>
       \/ /\ prRead' = prRead + 1
          /\ prOut' = prOut + 1
          /\ prArg' = prArg + 1
          /\ UNCHANGED <<prPc, prLog>>
    /\ UNCHANGED <<prFlags, prData, prI, prRules>>
    /\ UNCHANGED prOthers

\* main.go:99: the loop over the arguments is over.
PrReturn ==
    /\ prPc = "args"
    /\ prFlags.nargs > 0
    /\ prArg > prFlags.nargs
    /\ prPc' = "exit"
    /\ UNCHANGED <<prFlags, prData, prI, prRules, prArg, prRead, prOut, prLog>>
    /\ UNCHANGED prOthers

PrNext == PrReadRules \/ PrRuleLine \/ PrRulesDone \/ PrStdin \/ PrFile \/ PrReturn

(***************************************************************************)
(* Claims about the rule file.                                             *)
(***************************************************************************)
C16_Blank(line) == \A i \in DOMAIN line : line[i] \in Space

\* The first character of the line that is not white space is #.
C16_Hash(line) ==
    \E i \in DOMAIN line : line[i] = "#" /\ \A j \in 1..(i - 1) : line[j] \in Space

\* old -> new, both sides parsing as an expression.
C16_OldNew(line) ==
    \E i \in 1..(Len(line) - 1) :
        /\ line[i] = "-" /\ line[i + 1] = ">"
        /\ ParseExpr(SubSeq(line, 1, i - 1))
        /\ ParseExpr(SubSeq(line, i + 2, Len(line)))

C16_Malformed(line) == ~C16_Blank(line) /\ ~C16_Hash(line) /\ ~C16_OldNew(line)

C16_Skipped(n) ==
    { i \in 1..n : C16_Blank(prData[i]) \/ C16_Hash(prData[i]) }

\* C16: when the rule file named by -r has a line that is not blank, is not
\* a # line and is not old -> new with both sides parsing as a Go
\* expression, the program never gets past parseRules: no input is read
\* and no output written, and the loop goes no further than that line;
\* blank lines and # lines (white space before the # allowed) give no rule
\* and no error: the error is never at such a line, and the lines passed
\* that were not skipped gave one rule each.
C16_MalformedRuleAborts ==
    /\ (prFlags.rulefile /\ \E i \in DOMAIN prData : C16_Malformed(prData[i])) =>
          /\ prPc \in {"rulefile", "parseRules", "exit"}
          /\ prRead = 0 /\ prOut = 0
          /\ \A i \in DOMAIN prData : C16_Malformed(prData[i]) => prI <= i
          /\ prPc = "exit" => prLog \in {"rule", "read rule file"}
    /\ (prPc = "exit" /\ prLog = "rule") =>
          /\ prI \in DOMAIN prData
          /\ prI \notin C16_Skipped(Len(prData))
          /\ prRead = 0 /\ prOut = 0
    /\ prPc \in {"parseRules", "args"} /\ prFlags.rulefile =>
          Len(prRules) = (prI - 1) - Cardinality(C16_Skipped(prI - 1))

\* C16 witness: the first line of the rule file is a # line with white
\* space before the #, the second has two ->; the program ended at the
\* second line with no rule, having read and written nothing.
C16_Witness ==
    /\ prPc = "exit" /\ prLog = "rule"
    /\ prData = << <<" ", "#", "a", "-", ">", "a">>,
                   <<"a", "-", ">", "a", "-", ">", "a">> >>
    /\ prI = 2
    /\ prRules = <<>>
    /\ prFlags.nargs > 0
    /\ prRead = 0 /\ prOut = 0

(***************************************************************************)
(* tmpGen (part_005:520-528): an unbuffered channel, the goroutine that    *)
(* sends 1, 2, 3, ... on it, and the translating goroutine, which receives *)
(* from it in doSideEffects (part_005:616, 650).                           *)
(***************************************************************************)
MaxTmp == 11

\* The two receives of doSideEffects: for a post-increment that may leave
\* nothing after the expression, and for a conditional expression.
TgReceives == {"PostInc", "Cond"}

TgInit ==
    /\ tgI = 1
    /\ tgProd = "send"
    /\ tgMain = "run"
    /\ tgTmps = <<>>

\* part_005:616, 650: the translating goroutine comes to a receive.
TgReceive ==
    /\ tgMain = "run"
    /\ Len(tgTmps) < MaxTmp
    /\ \E r \in TgReceives : tgMain' = r
    /\ UNCHANGED <<tgI, tgProd, tgTmps>>
    /\ UNCHANGED tgOthers

\* part_005:525 with part_005:616 or 650: the send and the receive happen
\* together, the channel having no buffer; the receiver names a temporary.
TgCommunicate ==
    /\ tgProd = "send"
    /\ tgMain \in TgReceives
    /\ tgTmps' = Append(tgTmps, [n |-> tgI, name |-> tmpName(tgI), at |-> tgMain])
    /\ tgProd' = "inc"
    /\ tgMain' = "run"
    /\ UNCHANGED tgI
    /\ UNCHANGED tgOthers

\* The loop as it would be without its i++.
TgIncrement_none ==
    /\ tgProd = "inc"
    /\ tgProd' = "send"
    /\ UNCHANGED <<tgI, tgMain, tgTmps>>
    /\ UNCHANGED tgOthers

\* part_005:524: i++, and the loop comes to the send again.
TgIncrement ==
    /\ tgProd = "inc"
    /\ tgI' = tgI + 1
    /\ tgProd' = "send"
    /\ UNCHANGED <<tgMain, tgTmps>>
    /\ UNCHANGED tgOthers

\* The translation unit is finished.
TgDone ==
    /\ tgMain = "run"
    /\ tgMain' = "done"
    /\ UNCHANGED <<tgI, tgProd, tgTmps>>
    /\ UNCHANGED tgOthers

TgNext == TgReceive \/ TgCommunicate \/ TgIncrement \/ TgDone

\* C17: the k-th receive from tmpGen yields k, whatever the order in which
\* the two goroutines take their steps, so no receive yields what an
\* earlier one yielded, and the names tmpN made from the numbers are
\* pairwise distinct.
C17_TmpNamesDistinct ==
    /\ \A k \in DOMAIN tgTmps :
          /\ tgTmps[k].n = k
          /\ tgTmps[k].name = tmpName(k)
    /\ \A j, k \in DOMAIN tgTmps :
          j # k => tgTmps[j].n # tgTmps[k].n /\ tgTmps[j].name # tgTmps[k].name
    /\ tgI \in {Len(tgTmps), Len(tgTmps) + 1}

\* C17 witness: eleven temporaries were named, from both receives, the
\* last two being tmp10 and tmp11, and the producer has not yet incremented.
C17_Witness ==
    /\ Len(tgTmps) >= 11
    /\ tgTmps[10].name = "tmp10" /\ tgTmps[11].name = "tmp11"
    /\ tgTmps[1].name = "tmp1"
    /\ {tgTmps[k].at : k \in 1..11} = TgReceives
    /\ tgProd = "inc"
    /\ tgMain = "run"

(***************************************************************************)
(* benchlab: the jobs of one machine.  runAll makes one test job (phase 0) *)
(* and Reps benchmark jobs (phases 1..Reps) for every commit/host pair,    *)
(* runMachine starts one goroutine per job that was not found in the       *)
(* cache, at most maxJobs of them at a time.  The hosts of one machine     *)
(* share the list m.jobs; machines do not share jobs, so one machine is    *)
(* modelled.  A job is named by its index in the order runAll creates it.  *)
(***************************************************************************)
BlMaxJobs == 4

BlNJobs(cfg) == cfg.pairs * (1 + cfg.reps)

jobPhase(k, cfg) == (k - 1) \div cfg.pairs

\* runAll: the id of a job counts the commit/host pairs of its phase from 0
jobId(k, cfg) == (k - 1) % cfg.pairs

\* a mutant of jobParent: every benchmark job waits for the first test job
jobParent_first(k, cfg) == IF jobPhase(k, cfg) = 0 THEN 0 ELSE 1

\* runAll: j.parent = tests[id] for phase >= 1, nil (0) for a test job
jobParent(k, cfg) == IF jobPhase(k, cfg) = 0 THEN 0 ELSE jobId(k, cfg) + 1

\* runAll: m.jobs holds the jobs without a cached output, in creation order
RECURSIVE mJobsFrom(_, _)
mJobsFrom(k, cfg) ==
    IF k > BlNJobs(cfg) THEN <<>>
    ELSE (IF k \in cfg.cached THEN <<>> ELSE <<k>>) \o mJobsFrom(k + 1, cfg)

mJobs(cfg) == mJobsFrom(1, cfg)

\* runMachine: maxJobs from the -cpu flag and the machine's CPU count
maxJobs(testCPU, cpu) ==
    IF testCPU > 0 /\ cpu > 0
    THEN (IF cpu \div testCPU > 1 THEN cpu \div testCPU ELSE 1)
    ELSE 1

BlConfigs ==
    { c \in [pairs : 1..BlMaxJobs, reps : 0..BlMaxJobs, testCPU : 0..1,
             maxJobs : {0}, cached : SUBSET (1..BlMaxJobs)] :
        /\ BlNJobs(c) <= BlMaxJobs
        /\ c.cached \subseteq 1..BlNJobs(c) }

\* the state after runAll's loops: cached jobs have success set and done closed
BlInit ==
    /\ blCfg \in BlConfigs
    /\ blPc = "setup"
    /\ blNext = 1
    /\ blActive = 0
    /\ blChan = 0
    /\ blDrain = 0
    /\ blJob = [k \in 1..BlNJobs(blCfg) |-> IF k \in blCfg.cached THEN "cached" ELSE "new"]
    /\ blSuccess = blCfg.cached
    /\ blClosed = blCfg.cached
    /\ blRan = {}

\* runMachine up to the job loop: no jobs, a failed connect, CPU scan or
\* upload (fail), or maxJobs computed from the CPU count
BlSetup ==
    /\ blPc = "setup"
    /\ \/ /\ mJobs(blCfg) = <<>>
          /\ blPc' = "returned"
          /\ UNCHANGED blCfg
       \/ /\ mJobs(blCfg) # <<>>
          /\ blPc' = "error"
          /\ UNCHANGED blCfg
       \/ /\ mJobs(blCfg) # <<>>
          /\ \E cpu \in 0..BlMaxJobs :
                blCfg' = [blCfg EXCEPT !.maxJobs = maxJobs(blCfg.testCPU, cpu)]
          /\ blPc' = "loop"
    /\ UNCHANGED <<blNext, blActive, blChan, blDrain, blJob, blSuccess, blClosed, blRan>>
    /\ UNCHANGED blOthers

\* runMachine: if active == maxJobs { report.done(<-done); active-- }
BlReap ==
    /\ blPc = "loop"
    /\ blNext <= Len(mJobs(blCfg))
    /\ blActive = blCfg.maxJobs
    /\ blChan > 0
    /\ blChan' = blChan - 1
    /\ blActive' = blActive - 1
    /\ UNCHANGED <<blCfg, blPc, blNext, blDrain, blJob, blSuccess, blClosed, blRan>>
    /\ UNCHANGED blOthers

\* runMachine: go func() { ... }(); active++
BlGo ==
    /\ blPc = "loop"
    /\ blNext <= Len(mJobs(blCfg))
    /\ blActive # blCfg.maxJobs
    /\ blJob' = [blJob EXCEPT ![mJobs(blCfg)[blNext]] = "runJob"]
    /\ blActive' = blActive + 1
    /\ blNext' = blNext + 1
    /\ UNCHANGED <<blCfg, blPc, blChan, blDrain, blSuccess, blClosed, blRan>>
    /\ UNCHANGED blOthers

\* runMachine: the job loop is over, for range active evaluates active once
BlLoopEnd ==
    /\ blPc = "loop"
    /\ blNext > Len(mJobs(blCfg))
    /\ blPc' = "drain"
    /\ blDrain' = blActive
    /\ UNCHANGED <<blCfg, blNext, blActive, blChan, blJob, blSuccess, blClosed, blRan>>
    /\ UNCHANGED blOthers

\* runMachine: report.done(<-done) in the final loop
BlDrain ==
    /\ blPc = "drain"
    /\ blDrain > 0
    /\ blChan > 0
    /\ blChan' = blChan - 1
    /\ blDrain' = blDrain - 1
    /\ UNCHANGED <<blCfg, blPc, blNext, blActive, blJob, blSuccess, blClosed, blRan>>
    /\ UNCHANGED blOthers

BlReturn ==
    /\ blPc = "drain"
    /\ blDrain = 0
    /\ blPc' = "returned"
    /\ UNCHANGED <<blCfg, blNext, blActive, blChan, blDrain, blJob, blSuccess, blClosed, blRan>>
    /\ UNCHANGED blOthers

\* runJob: the receive from j.parent.done returns once the channel is
\* closed; a parent without success makes runJob return
BlJobSkip(k) ==
    /\ blJob[k] = "runJob"
    /\ jobParent(k, blCfg) # 0
    /\ jobParent(k, blCfg) \in blClosed
    /\ jobParent(k, blCfg) \notin blSuccess
    /\ blJob' = [blJob EXCEPT ![k] = "returned"]
    /\ UNCHANGED <<blCfg, blPc, blNext, blActive, blChan, blDrain, blSuccess, blClosed, blRan>>
    /\ UNCHANGED blOthers

\* runJob: no parent, or the parent is done with success: runRemote starts
BlJobCommand(k) ==
    /\ blJob[k] = "runJob"
    /\ \/ jobParent(k, blCfg) = 0
       \/ /\ jobParent(k, blCfg) \in blClosed
          /\ jobParent(k, blCfg) \in blSuccess
    /\ blJob' = [blJob EXCEPT ![k] = "command"]
    /\ blRan' = blRan \cup {k}
    /\ UNCHANGED <<blCfg, blPc, blNext, blActive, blChan, blDrain, blSuccess, blClosed>>
    /\ UNCHANGED blOthers

\* runJob: runRemote returns; j.success is set when err is nil
BlJobResult(k) ==
    /\ blJob[k] = "command"
    /\ blJob' = [blJob EXCEPT ![k] = "returned"]
    /\ \E err \in BOOLEAN :
          blSuccess' = IF err THEN blSuccess ELSE blSuccess \cup {k}
    /\ UNCHANGED <<blCfg, blPc, blNext, blActive, blChan, blDrain, blClosed, blRan>>
    /\ UNCHANGED blOthers

\* the goroutine of runMachine: close(j.done) after runJob returned
BlJobClose(k) ==
    /\ blJob[k] = "returned"
    /\ blJob' = [blJob EXCEPT ![k] = "closed"]
    /\ blClosed' = blClosed \cup {k}
    /\ UNCHANGED <<blCfg, blPc, blNext, blActive, blChan, blDrain, blSuccess, blRan>>
    /\ UNCHANGED blOthers

\* the goroutine of runMachine: done <- j; the buffer holds len(m.jobs)
BlJobSend(k) ==
    /\ blJob[k] = "closed"
    /\ blChan < Len(mJobs(blCfg))
    /\ blJob' = [blJob EXCEPT ![k] = "sent"]
    /\ blChan' = blChan + 1
    /\ UNCHANGED <<blCfg, blPc, blNext, blActive, blDrain, blSuccess, blClosed, blRan>>
    /\ UNCHANGED blOthers

BlJobStep ==
    \E k \in DOMAIN blJob :
        \/ BlJobSkip(k)
        \/ BlJobCommand(k)
        \/ BlJobResult(k)
        \/ BlJobClose(k)
        \/ BlJobSend(k)

BlNext ==
    \/ BlSetup
    \/ BlReap
    \/ BlGo
    \/ BlLoopEnd
    \/ BlDrain
    \/ BlReturn
    \/ BlJobStep

BlBench == { k \in DOMAIN blJob : jobPhase(k, blCfg) >= 1 }

BlFinished == { k \in DOMAIN blJob : blJob[k] \in {"returned", "closed", "sent"} }

\* the test job of a benchmark job: same commit and host, phase 0
BlTestOf(k) == jobId(k, blCfg) + 1

BlTestFailed(k) == BlTestOf(k) \in blClosed /\ BlTestOf(k) \notin blSuccess

\* a command is started only when the test job is done and succeeded
C20_StartsAfterTest ==
    \A k \in BlBench :
        (k \in blRan' /\ k \notin blRan) =>
            (BlTestOf(k) \in blClosed /\ BlTestOf(k) \in blSuccess)

\* a finished benchmark job of a failed test job did not run and has no success
C20_SkippedAfterFailure ==
    \A k \in BlBench :
        (BlTestFailed(k) /\ k \in BlFinished) => (k \notin blRan /\ k \notin blSuccess)

\* a benchmark job that was not found in the cache, after its test job failed
C20_Started(k) == k \in BlBench /\ blJob[k] # "cached" /\ BlTestFailed(k)

C20_Ended(k) == k \in BlFinished /\ k \notin blRan /\ k \notin blSuccess

\* C20 as stated, its second half: every benchmark job of a failed test job,
\* the ones found in the cache included, is without a run and without success.
C20_Original ==
    \A k \in BlBench :
        (BlTestFailed(k) /\ (k \in BlFinished \/ blJob[k] = "cached")) =>
            (k \notin blRan /\ k \notin blSuccess)

\* C20: a benchmark job (phase >= 1) starts its command only after the test
\* job of the same commit and host is done and succeeded; when that test job
\* failed, a benchmark job that was not found in the cache finishes without
\* running its command and without success, in every interleaving of the
\* goroutines and for every maxJobs.
C20_BenchAfterTest ==
    /\ [][C20_StartsAfterTest]_vars
    /\ []C20_SkippedAfterFailure
    /\ \A k \in 1..(BlMaxJobs + 1) : C20_Started(k) ~> C20_Ended(k)

\* two pairs, one rep, maxJobs 1: the test of pair 1 succeeded and its
\* benchmark ran, the test of pair 2 failed and its benchmark was skipped
C20_Witness ==
    /\ blCfg.pairs = 2
    /\ blCfg.reps = 1
    /\ blCfg.maxJobs = 1
    /\ blCfg.cached = {}
    /\ blPc = "returned"
    /\ 1 \in blSuccess
    /\ 3 \in blRan
    /\ 2 \in blClosed
    /\ 2 \notin blSuccess
    /\ blJob[4] = "sent"
    /\ 4 \notin blRan
    /\ 4 \notin blSuccess

(***************************************************************************)
(* simplifyBool (part_005:723-795) on one expression.  cc.Postorder, which *)
(* is outside the program, is taken to call the function on the operands   *)
(* of an expression before the expression itself.                          *)
(***************************************************************************)
CmpOps == {"EqEq", "NotEq", "Lt", "LtEq", "Gt", "GtEq"}

\* part_005:750-789: the operator a negated comparison is given
Inverted(op) ==
    CASE op = "EqEq" -> "NotEq"
      [] op = "NotEq" -> "EqEq"
      [] op = "Lt" -> "GtEq"
      [] op = "LtEq" -> "Gt"
      [] op = "Gt" -> "LtEq"
      [] op = "GtEq" -> "Lt"

\* part_005:793-795; a nil type is "none"
isfloat(t) == t \in {"Float32", "Float64"}

\* part_005:730-732
RECURSIVE unparen(_)
unparen(y) == IF y.op = "Paren" THEN unparen(y.left) ELSE y

\* a mutant of simplifyNot: De Morgan's law without the change of operator
simplifyNot_sameOp(x) ==
    IF x.op # "Not" THEN x
    ELSE With(unparen(x.left), LAMBDA y :
            CASE y.op \in {"AndAnd", "OrOr"} ->
                    [y EXCEPT !.left = Not(y.left), !.right = Not(y.right)]
              [] y.op \in CmpOps ->
                    IF isfloat(x.left.xtype) THEN x ELSE [y EXCEPT !.op = Inverted(y.op)]
              [] OTHER -> x)

\* part_005:727-789: the function on one expression, its operands done
simplifyNot(x) ==
    IF x.op # "Not" THEN x
    ELSE With(unparen(x.left), LAMBDA y :
            CASE y.op = "AndAnd" ->
                    [y EXCEPT !.left = Not(y.left), !.right = Not(y.right), !.op = "OrOr"]
              [] y.op = "OrOr" ->
                    [y EXCEPT !.left = Not(y.left), !.right = Not(y.right), !.op = "AndAnd"]
              [] y.op \in CmpOps ->
                    IF isfloat(x.left.xtype) THEN x ELSE [y EXCEPT !.op = Inverted(y.op)]
              [] OTHER -> x)

\* part_005:723-791
RECURSIVE simplifyBool(_)
simplifyBool(x) ==
    IF x.op = "nil" THEN x
    ELSE simplifyNot([x EXCEPT !.left = simplifyBool(@),
                               !.right = simplifyBool(@),
                               !.list = [i \in DOMAIN @ |-> simplifyBool(@[i])]])

VarX == Typed(Name("x", 6), "Float64")
VarY == Typed(Name("y", 7), "Float32")

\* The types a comparison may carry: a C comparison has type int, and an
\* expression that was never type-checked has none.
SbCmpTypes == {"Int", "none"}

SbPairs == { <<VarA, VarB>>, <<VarB, Number("1")>>, <<VarX, VarY>> }

SbCmps == { Typed(Binary(op, p[1], p[2]), t) : op \in CmpOps, p \in SbPairs, t \in SbCmpTypes }

\* a few comparisons and a name, as operands of && and ||
SbOperands ==
    { Typed(Binary("Lt", VarA, VarB), "Int"),
      Typed(Binary("EqEq", VarB, Number("1")), "Int"),
      Typed(Binary("GtEq", VarX, VarY), "Int"),
      Not(Typed(Binary("LtEq", VarA, VarB), "Int")),
      Not(VarA),
      Paren(Binary("OrOr", Binary("NotEq", VarA, Number("0")), Binary("Gt", VarB, VarA))),
      Binary("NotEq", VarA, Number("0")) }

SbJoined == { Binary(op, l, r) : op \in {"AndAnd", "OrOr"}, l \in SbOperands, r \in SbOperands }

SbExprs ==
    { Not(c) : c \in SbCmps }
    \cup { Not(Paren(c)) : c \in SbCmps }
    \cup { Not(Typed(Paren(c), c.xtype)) : c \in SbCmps }
    \cup { Not(j) : j \in SbJoined }
    \cup { Not(Paren(Paren(j))) : j \in SbJoined }
    \cup { Not(Not(Paren(j))) : j \in SbJoined }
    \cup { Binary("AndAnd", Not(Paren(j)), VarA) : j \in SbJoined }
    \cup SbJoined

SbInit ==
    /\ sbPc = "call"
    /\ sbIn \in SbExprs
    /\ sbOut = [op |-> "nil"]

\* part_005:723-791
SbSimplify ==
    /\ sbPc = "call"
    /\ sbOut' = simplifyBool(sbIn)
    /\ sbPc' = "done"
    /\ UNCHANGED sbIn
    /\ UNCHANGED sbOthers

SbNext == SbSimplify

\* a negated comparison, parenthesized or not, whose operands are floats
C25_Case ==
    /\ sbPc = "done"
    /\ sbIn.op = "Not"
    /\ unparen(sbIn.left).op \in CmpOps
    /\ isfloat(unparen(sbIn.left).left.xtype)
    /\ isfloat(unparen(sbIn.left).right.xtype)

\* C25: simplifyBool leaves !(a op b) unchanged for every comparison
\* operator op whose operands a, b have type Float32 or Float64.
C25_FloatNotInverted == C25_Case => sbOut = sbIn

\* The value of an expression over the integers a and b, C's rules: a
\* comparison, !, && and || give 0 or 1, and what is not 0 is true.
RECURSIVE SbVal(_, _, _)
SbVal(e, a, b) ==
    LET bit(t) == IF t THEN 1 ELSE 0
        l == SbVal(e.left, a, b)
        r == SbVal(e.right, a, b)
    IN  CASE e.op = "Name" -> (IF e.text = "a" THEN a ELSE b)
          [] e.op = "Number" -> (CHOOSE i \in DOMAIN Digits : Digits[i] = e.text) - 1
          [] e.op = "Paren" -> l
          [] e.op = "Not" -> bit(l = 0)
          [] e.op = "AndAnd" -> bit(l # 0 /\ r # 0)
          [] e.op = "OrOr" -> bit(l # 0 \/ r # 0)
          [] e.op = "EqEq" -> bit(l = r)
          [] e.op = "NotEq" -> bit(l # r)
          [] e.op = "Lt" -> bit(l < r)
          [] e.op = "LtEq" -> bit(l <= r)
          [] e.op = "Gt" -> bit(l > r)
          [] e.op = "GtEq" -> bit(l >= r)

SbInts == 0..2

SbOverInts(e) == \A z \in SubExprs(e) : z.op = "Name" => z.text \in {"a", "b"}

\* C27: simplifyBool preserves truth values: for every expression over
\* integer operands and every valuation, the expression after the pass has
\* the value it had before; !(a && b) becomes !a || !b, !(a || b) becomes
\* !a && !b, and a negated comparison becomes the opposite comparison.
C27_TruthPreserved ==
    (sbPc = "done" /\ SbOverInts(sbIn)) =>
        /\ \A a \in SbInts : \A b \in SbInts : SbVal(sbOut, a, b) = SbVal(sbIn, a, b)
        /\ (sbIn.op = "Not" /\ unparen(sbIn.left).op \in {"AndAnd", "OrOr"}) =>
              \A y \in {simplifyBool(unparen(sbIn.left))} :
                 /\ sbOut.op = (IF y.op = "AndAnd" THEN "OrOr" ELSE "AndAnd")
                 /\ sbOut.left = Not(y.left)
                 /\ sbOut.right = Not(y.right)
        /\ (sbIn.op = "Not" /\ unparen(sbIn.left).op \in CmpOps) =>
              /\ sbOut.op = Inverted(unparen(sbIn.left).op)
              /\ sbOut.left = unparen(sbIn.left).left
              /\ sbOut.right = unparen(sbIn.left).right

\* C27 witness: !((a < b) && !(a <= b)) became !(a < b) || !(a > b)
C27_Witness ==
    /\ sbPc = "done"
    /\ sbIn = Not(Binary("AndAnd", Typed(Binary("Lt", VarA, VarB), "Int"),
                                   Not(Typed(Binary("LtEq", VarA, VarB), "Int"))))
    /\ sbOut = Binary("OrOr", Not(Typed(Binary("Lt", VarA, VarB), "Int")),
                              Not(Typed(Binary("Gt", VarA, VarB), "Int")))

(***************************************************************************)
(* The conditions rewriteSyntax leaves (part_005:137-157, 314-345).        *)
(***************************************************************************)
\* boolean by its top operator, parentheses ignored, or a SideEffectFunc
\* of type bool
C26_Bool(e) ==
    \/ unparen(e).op \in CmpOps \cup {"AndAnd", "OrOr", "Not"}
    \/ unparen(e).op = "SideEffectFunc" /\ unparen(e).text = "bool"

\* the non-nil conditions of the if and for statements and the operands of
\* !, && and || of the tree
C26_Conditions ==
    { s.expr : s \in { t \in SeStmtsNow : t.op \in {"If", "For"} /\ t.expr.op # "nil" } }
    \cup { x.left : x \in { y \in SeExprsNow : y.op \in {"Not", "AndAnd", "OrOr"} } }
    \cup { x.right : x \in { y \in SeExprsNow : y.op \in {"AndAnd", "OrOr"} } }

\* fixBool on e: unchanged when e is boolean, else e != 0 or e != nil, nil
\* for a name declared with pointer type and 0 for what is no such name
\* even without its parentheses; twice is the same as once
C26_FixBool(e) ==
    \A f \in {fixBool(e, seG)} :
        /\ fixBool(f, seG) = f
        /\ C26_Bool(e) => f = e
        /\ ~C26_Bool(e) =>
              /\ f.op = "NotEq"
              /\ unparen(f.left) = unparen(e)
              /\ f.right.op = "Name"
              /\ f.right.text \in {"0", "nil"}
              /\ isPtrName(e, seG) => f.right.text = "nil"
              /\ ~isPtrName(unparen(e), seG) => f.right.text = "0"

\* C26: after rewriteSyntax every non-nil if or for condition and every
\* operand of !, && and || has, parentheses ignored, a top operator among
\* ==, !=, <, <=, >, >=, &&, ||, ! or is a SideEffectFunc of type bool;
\* fixBool wraps any other expression e as e != 0, or e != nil when e is a
\* name declared with pointer type, leaves a boolean expression unchanged,
\* and applied twice gives what it gives applied once.
C26_ConditionsBoolean ==
    /\ sePc = "done" => \A c \in C26_Conditions : C26_Bool(c)
    /\ \A e \in SeExprsNow : C26_FixBool(e)

\* C26 witness: if (p) with p a pointer became if p != nil
C26_Witness ==
    /\ sePc = "done"
    /\ seIn = Block(<<If(VarP, CallG, NilS)>>)
    /\ \E s \in SeStmtsNow :
          /\ s.op = "If"
          /\ s.expr.op = "NotEq"
          /\ s.expr.left = VarP
          /\ s.expr.right.text = "nil"

(***************************************************************************)
(* Specifications, one per component; the other components stay idle.      *)
(***************************************************************************)
InitRewrite == RwInit /\ RnOff /\ RsOff /\ DoOff /\ MdOff /\ SeOff /\ PrOff /\ TgOff /\ SxOff /\ BlOff /\ SbOff

SpecRewrite == InitRewrite /\ [][RwNext]_vars

\* rewriteFile is straight-line code on one goroutine: while its control can
\* advance, it does.  The fairness is on the advance of the control alone,
\* which every step of RwNext makes.
SpecRewriteRun == InitRewrite /\ [][RwNext]_vars /\ WF_<<rwPc, rwI>>(RwAdvance)

InitRename == RnInit /\ RwOff /\ RsOff /\ DoOff /\ MdOff /\ SeOff /\ PrOff /\ TgOff /\ SxOff /\ BlOff /\ SbOff

SpecRename == InitRename /\ [][RnNext]_vars

InitSwitch == RsInit /\ RwOff /\ RnOff /\ DoOff /\ MdOff /\ SeOff /\ PrOff /\ TgOff /\ SxOff /\ BlOff /\ SbOff

SpecSwitch == InitSwitch /\ [][RsNext]_vars

InitDo == DoInit /\ RwOff /\ RnOff /\ RsOff /\ MdOff /\ SeOff /\ PrOff /\ TgOff /\ SxOff /\ BlOff /\ SbOff

\* do is sequential code: while it is in the parse loop, it runs the next turn.
SpecDo == InitDo /\ [][DoNext]_vars /\ WF_vars(DoParse)

InitMove == MdInit /\ RwOff /\ RnOff /\ RsOff /\ DoOff /\ SeOff /\ PrOff /\ TgOff /\ SxOff /\ BlOff /\ SbOff

SpecMove == InitMove /\ [][MdNext]_vars

InitSide == SeInit /\ RwOff /\ RnOff /\ RsOff /\ DoOff /\ MdOff /\ PrOff /\ TgOff /\ SxOff /\ BlOff /\ SbOff
SpecSide == InitSide /\ [][SeNext]_vars

InitRules == PrInit /\ RwOff /\ RnOff /\ RsOff /\ DoOff /\ MdOff /\ SeOff /\ TgOff /\ SxOff /\ BlOff /\ SbOff

SpecRules == InitRules /\ [][PrNext]_vars

InitTmpGen == TgInit /\ RwOff /\ RnOff /\ RsOff /\ DoOff /\ MdOff /\ SeOff /\ PrOff /\ SxOff /\ BlOff /\ SbOff

SpecTmpGen == InitTmpGen /\ [][TgNext]_vars

InitExtract == SxInit /\ RwOff /\ RnOff /\ RsOff /\ DoOff /\ MdOff /\ SeOff /\ PrOff /\ TgOff /\ BlOff /\ SbOff

SpecExtract == InitExtract /\ [][SxNext]_vars

InitBench == BlInit /\ RwOff /\ RnOff /\ RsOff /\ DoOff /\ MdOff /\ SeOff /\ PrOff /\ TgOff /\ SxOff /\ SbOff

\* the Go scheduler runs every runnable goroutine, and a command that was
\* started returns: a step that stays possible is taken
SpecBench == InitBench /\ [][BlNext]_vars /\ WF_vars(BlNext)

InitBool == SbInit /\ RwOff /\ RnOff /\ RsOff /\ DoOff /\ MdOff /\ SeOff /\ PrOff /\ TgOff /\ SxOff /\ BlOff

SpecBool == InitBool /\ [][SbNext]_vars

====
